---- MODULE Spec2Model ----
(***************************************************************************)
(* State-machine model of claude-cron's transport layer.                   *)
(*                                                                         *)
(* Part I models OpenClawGatewayClient (src/src/openclaw-gateway.ts): the  *)
(* pending-request table, the connection flags, the reconnect timer and    *)
(* sendMessage.  One action is one task of the Node.js event loop: the     *)
(* event handler (or timer callback, or public method call) together with  *)
(* the promise continuations it wakes, which the runtime runs before the   *)
(* next event is dispatched.                                               *)
(***************************************************************************)
EXTENDS Integers, Sequences, FiniteSets, TLC

\* ---------------------------------------------------------------- bounds
\* Bounds of SpecBrowser.
MaxEvals == 1       \* evaluate* invocations
MaxProcs == 2       \* Chrome processes spawned
MaxConns == 2       \* CDP connections made
MaxBsStops == 1     \* stop() invocations
MaxBsStarts == 1    \* public start() invocations
RaceStarts == 2     \* SpecRace: public start() invocations
RaceConns == 1      \*           CDP connections made
\* Bounds of SpecParser.
MaxLines == 2       \* lines of a body
MaxParses == 2      \* parses of one body
\* Bounds of SpecChat.
MaxVaried == 1      \* responses and tool runs that differ from the repeated tool call

\* Scenario bounds.  Every specification runs all the actions; each bounds
\* what one run may do.
MaxSock == 2        \* Spec: WebSocket objects created
MaxReq == 3         \*       request ids generated
MaxCalls == 1       \*       sendMessage invocations
MaxStops == 1       \*       stop() invocations
MaxChats == 2       \*       chat events received
MaxApis == 0        \*       public connect() invocations that open a socket
MaxRuns == 1        \*       run ids the gateway hands out
MaxContent == 2     \*       content parts of one chat event
CorrSocks == 2      \* SpecCorr: the same, for two concurrent sendMessage calls
CorrReqs == 3
CorrCalls == 2
CorrStops == 1
CorrChats == 1
CorrApis == 0
CorrRuns == 1
CorrContent == 1
FairSocks == 2      \* SpecFair: the same, for the close that follows an error
FairReqs == 2
FairCalls == 1
FairStops == 1
FairChats == 1
FairApis == 0
FairRuns == 1
FairContent == 1
\* Bounds of SpecBot.
BotChats == 2       \* chats that send messages
MaxMsgs == 3        \* messages received

\* ------------------------------------------------------ program constants
InitialBackoffMs == 1000
MaxBackoffMs == 30000
BsInitialBackoffMs == 1000
BsMaxBackoffMs == 30000
MaxAgentIterations == 30

NoResponseText == <<"(no response)">>   \* the '(응답 없음)' placeholder
DefaultError == "request failed"        \* 'Gateway 요청 실패'

VARIABLES
  \* fields of OpenClawGatewayClient
  ws,              \* this.ws: index into socks, 0 for null
  connected,       \* this.connected
  authenticated,   \* this.authenticated
  stopped,         \* this.stopped
  backoffMs,       \* this.backoffMs
  reconnectTimer,  \* this.reconnectTimer: 0 for null, else the armed delay
  pending,         \* this.pending: request id -> the entry's closures
  chatFinalTexts,  \* this.chatFinalTexts: run id -> text
  \* the runtime around the client
  socks,           \* every WebSocket created, with its connect() promise
  timers,          \* ids whose request timer is armed
  issued,          \* request id -> its frame's socket (0: not written), method, closures
  replied,         \* ids the server has answered
  calls,           \* sendMessage invocations
  nextId,          \* next request id (generateId)
  \* history
  done,            \* request id -> how often a callback of its entry was invoked
  fired,           \* the callback invocations of the last step
  nChats,          \* chat events received so far
  lim,             \* the scenario bounds of the specification
  finalSeen,       \* run id -> text of the last final chat event received for it
  nSched,          \* reconnect timers armed since the last authentication
  nStops,          \* stop() invocations so far
  lastOp           \* the operation of the last step

gwVars == <<ws, connected, authenticated, stopped, backoffMs, reconnectTimer,
            pending, chatFinalTexts, socks, timers, issued, replied, calls,
            nextId, done, fired, nChats, lim, finalSeen, nSched, nStops, lastOp>>

VARIABLES
  \* fields of BrowserService
  browser,         \* this.browser: index into conns, 0 for null
  page,            \* this.page: the page of connection `page`, 0 for null
  chromeProcess,   \* this.chromeProcess: index into procs, 0 for null
  bsStopped,       \* this.stopped
  bsBackoffMs,     \* this.backoffMs
  reconnecting,    \* this.reconnecting
  warmedUp,        \* this.warmedUp
  \* the runtime around the service
  procs,           \* every Chrome process spawned
  conns,           \* every CDP connection made
  threads,         \* the asynchronous calls of recover(), start() and stop()
  evals,           \* the evaluate* calls: position and method, and from the
                   \* last step the rejection, the error thrown and the
                   \* recover() invocations
  nBsStops,        \* stop() invocations so far
  nBsStarts,       \* public start() invocations so far
  afterStop        \* stop() was invoked and no caller has invoked start() since

bsVars == <<browser, page, chromeProcess, bsStopped, bsBackoffMs, reconnecting,
            warmedUp, procs, conns, threads, evals, nBsStops, nBsStarts,
            afterStop>>

VARIABLES
  \* the in-page SSE parser of evaluateSSEStructured
  fullBody,        \* the response body: its lines, each a sequence of tokens
  sseOuts          \* what each parse of the body so far ended with

sseVars == <<fullBody, sseOuts>>

VARIABLES
  call             \* the sendMessage call of ChatGPTBrowserClient: its
                   \* position, arguments and locals, the error or text it
                   \* ended with, and counts of what it has done

\* The state of the parts other than the gateway client and the browser
\* service.
VARIABLES
  route            \* the executeTask call: its position, the configuration,
                   \* the stages started and the result returned

VARIABLES
  bot              \* the Telegram bot: the ChatQueue, the functions it awaits,
                   \* the session store, and what was enqueued and started

auxVars == <<sseVars, call, route, bot>>

vars == <<gwVars, bsVars, auxVars>>

CallIds == DOMAIN calls
Runs == 1..lim.runs

EmptyMap == [x \in {} |-> 0]

Without(f, k) == [x \in DOMAIN f \ {k} |-> f[x]]

Min(a, b) == IF a < b THEN a ELSE b

\* The client and its runtime as one record, so that a handler and the
\* continuations it wakes compose as functions on it.
GW ==
  [ws |-> ws, connected |-> connected, authenticated |-> authenticated,
   stopped |-> stopped, backoffMs |-> backoffMs,
   reconnectTimer |-> reconnectTimer, pending |-> pending,
   chatFinalTexts |-> chatFinalTexts, socks |-> socks, timers |-> timers,
   issued |-> issued, replied |-> replied, calls |-> calls, nextId |-> nextId,
   done |-> done, fired |-> <<>>, finalSeen |-> finalSeen, nSched |-> nSched,
   mq |-> <<>>]

IdleCall == [pc |-> "idle", aw |-> 0, run |-> 0, text |-> <<>>, err |-> "", status |-> ""]

IsReady(S) == S.connected /\ S.authenticated

\* A sendMessage call ends by throwing.
CallFail(S, k, why, st) ==
  [S EXCEPT !.calls[k] = [@ EXCEPT !.pc = "failed", !.aw = 0, !.err = why, !.status = st]]

NoPayload == [runId |-> 0, status |-> ""]

\* One invocation of the resolve or reject callback of request id's entry.
Invocation(id, cb, val, why) == [id |-> id, cb |-> cb, val |-> val, why |-> why]

Invoke(S, id, cb, val, why) ==
  [S EXCEPT !.done[id] = @ + 1,
            !.fired = Append(@, Invocation(id, cb, val, why))]

\* ------------------------------------------------------------- scheduling

\* scheduleReconnect() without its first line.
ScheduleReconnectAlways(S) ==
  [S EXCEPT !.reconnectTimer = S.backoffMs, !.nSched = @ + 1]

\* scheduleReconnect(): arms the reconnect timer with the current backoff.
ScheduleReconnect(S) ==
  IF S.reconnectTimer # 0 \/ S.stopped
  THEN S
  ELSE [S EXCEPT !.reconnectTimer = S.backoffMs, !.nSched = @ + 1]

\* ------------------------------------------------------------ request()

\* request(method, params, timeoutMs), called by sendMessage call k.
Request(S, k, method) ==
  IF S.ws = 0 \/ S.socks[S.ws].state # "open"
  THEN CallFail(S, k, "not connected", "")
  ELSE LET id == S.nextId
           e == [kind |-> "req", sock |-> 0, call |-> k]
       IN
       [S EXCEPT !.nextId = id + 1,
                 !.pending = (id :> e) @@ @,
                 !.timers = @ \cup {id},
                 !.issued = (id :> [sock |-> S.ws, method |-> method, entry |-> e]) @@ @,
                 !.done = (id :> 0) @@ @,
                 !.calls[k] = [@ EXCEPT !.pc = method, !.aw = id]]

\* sendConnect(onAuthenticated), run by the message handler of socket s.
\* The frame goes to this.ws, and is written only if that socket is open.
SendConnect(S, s) ==
  LET id == S.nextId
      to == IF S.ws # 0 /\ S.socks[S.ws].state = "open" THEN S.ws ELSE 0
      e == [kind |-> "auth", sock |-> s, call |-> 0]
  IN [S EXCEPT !.nextId = id + 1,
               !.pending = (id :> e) @@ @,
               !.timers = @ \cup {id},
               !.issued = (id :> [sock |-> to, method |-> "connect", entry |-> e]) @@ @,
               !.done = (id :> 0) @@ @]

\* -------------------------------------------------- promise continuations

\* resolve()/reject() of the promise connect() returned for socket s: the
\* promise settles once; its continuation is queued as a microtask.
SettleConnect(S, s, how) ==
  IF S.socks[s].connP # "pending"
  THEN S
  ELSE [S EXCEPT !.socks[s].connP = how,
                 !.mq = Append(@, [t |-> "conn", n |-> s, call |-> 0, cb |-> how,
                                   val |-> NoPayload, why |-> ""])]

\* The resolve callback of a pending entry.
ResolveEntry(S, id, e, val) ==
  LET S1 == Invoke(S, id, "resolve", val, "") IN
  IF e.kind = "auth"
  THEN SettleConnect([S1 EXCEPT !.authenticated = TRUE,
                                !.backoffMs = InitialBackoffMs,
                                !.nSched = 0,
                                !.socks[e.sock].connTimer = FALSE],
                     e.sock, "resolved")
  ELSE IF S.done[id] = 0
       THEN [S1 EXCEPT !.mq = Append(@, [t |-> "req", n |-> id, call |-> e.call,
                                         cb |-> "resolve", val |-> val, why |-> ""])]
       ELSE S1

\* The reject callback of a pending entry.
RejectEntry(S, id, e, why) ==
  LET S1 == Invoke(S, id, "reject", NoPayload, why) IN
  IF e.kind = "req" /\ S.done[id] = 0
  THEN [S1 EXCEPT !.mq = Append(@, [t |-> "req", n |-> id, call |-> e.call,
                                    cb |-> "reject", val |-> NoPayload, why |-> why])]
  ELSE S1

\* sendMessage after the await of this.connect().
AfterConnect(S, caller, how) ==
  IF caller.by = "reconnect"
  THEN IF how = "resolved"
       THEN S
       ELSE ScheduleReconnect([S EXCEPT !.backoffMs = Min(@ * 2, MaxBackoffMs)])
  ELSE IF caller.by = "sendMessage"
  THEN IF how = "resolved"
       THEN Request(S, caller.call, "chat.send")
       ELSE CallFail(S, caller.call, "connect", "")
  ELSE S

\* sendMessage returning without the placeholder.
ReturnTextOrFail(S, k) ==
  LET r == S.calls[k].run IN
  IF r \in DOMAIN S.chatFinalTexts
  THEN [S EXCEPT !.calls[k] = [@ EXCEPT !.pc = "ok", !.aw = 0,
                                        !.text = S.chatFinalTexts[r]],
                 !.chatFinalTexts = Without(@, r)]
  ELSE CallFail(S, k, "no text", "")

\* sendMessage's last lines: the text captured for the run, or the
\* placeholder; the run's entry is deleted.
ReturnText(S, k) ==
  LET r == S.calls[k].run
      got == IF r \in DOMAIN S.chatFinalTexts THEN S.chatFinalTexts[r] ELSE <<>>
  IN [S EXCEPT !.calls[k] = [@ EXCEPT !.pc = "ok", !.aw = 0,
                                      !.text = IF got # <<>> THEN got
                                               ELSE NoResponseText],
               !.chatFinalTexts = Without(@, r)]

\* sendMessage after agent.wait, without the status check.
AfterWaitAnyStatus(S, k, m) == ReturnText(S, k)

\* sendMessage after the await of agent.wait.
AfterWait(S, k, m) ==
  IF m.val.status # "ok"
  THEN CallFail(S, k, "agent.wait",
                IF m.val.status = "" THEN "unknown" ELSE m.val.status)
  ELSE ReturnText(S, k)

\* sendMessage after the await of a request: chat.send, then agent.wait.
AfterRequest(S, k, m) ==
  IF S.calls[k].aw # m.n THEN S
  ELSE IF m.cb = "reject" THEN CallFail(S, k, m.why, "")
  ELSE IF S.calls[k].pc = "chat.send"
  THEN IF m.val.runId = 0
       THEN CallFail(S, k, "no runId", "")
       ELSE Request([S EXCEPT !.calls[k].run = m.val.runId], k, "agent.wait")
  ELSE AfterWait(S, k, m)

RunMicrotask(S, m) ==
  IF m.t = "conn"
  THEN AfterConnect(S, S.socks[m.n].caller, m.cb)
  ELSE AfterRequest(S, m.call, m)

\* The microtask queue is drained before the next event is dispatched.
RECURSIVE Drain(_)
Drain(S) ==
  IF S.mq = <<>>
  THEN S
  ELSE Drain(RunMicrotask([S EXCEPT !.mq = Tail(@)], Head(S.mq)))

\* ------------------------------------------------------------- handlers

\* flushPending without the clearTimeout.
RECURSIVE FlushFromKeepTimers(_, _, _)
FlushFromKeepTimers(S, ids, why) ==
  IF ids = {}
  THEN [S EXCEPT !.pending = EmptyMap]
  ELSE LET id == CHOOSE i \in ids : \A j \in ids : i <= j
       IN FlushFromKeepTimers(RejectEntry(S, id, S.pending[id], why), ids \ {id}, why)

\* flushPending(error): rejects every entry in insertion order, then clears.
RECURSIVE FlushFrom(_, _, _)
FlushFrom(S, ids, why) ==
  IF ids = {}
  THEN [S EXCEPT !.pending = EmptyMap]
  ELSE LET id == CHOOSE i \in ids : \A j \in ids : i <= j
       IN FlushFrom(RejectEntry([S EXCEPT !.timers = @ \ {id}], id, S.pending[id], why),
                    ids \ {id}, why)

FlushPending(S, why) == FlushFrom(S, DOMAIN S.pending, why)

\* handleMessage without the test of parsed.ok and parsed.error.
CompleteAsOk(S, id, e, f) == ResolveEntry(S, id, e, f.payload)

\* The callback a response frame selects, applied to entry e of request id.
Complete(S, id, e, f) ==
  IF f.ok = FALSE \/ f.error # ""
  THEN RejectEntry(S, id, e, IF f.error # "" THEN f.error ELSE DefaultError)
  ELSE ResolveEntry(S, id, e, f.payload)

\* handleMessage without the delete and the clearTimeout.
HandleResponseKeepEntry(S, f) ==
  IF f.id \notin DOMAIN S.pending
  THEN S
  ELSE Complete(S, f.id, S.pending[f.id], f)

\* handleMessage completing the oldest entry instead of the frame's.
HandleResponseFifo(S, f) ==
  IF f.id \notin DOMAIN S.pending
  THEN S
  ELSE LET id == CHOOSE i \in DOMAIN S.pending : \A j \in DOMAIN S.pending : i <= j
       IN Complete([S EXCEPT !.pending = Without(@, id), !.timers = @ \ {id}],
                   id, S.pending[id], f)

\* handleMessage completing the request of the frame's id whether or not
\* it is still in the pending table.
HandleResponseLate(S, f) ==
  Complete([S EXCEPT !.pending = Without(@, f.id), !.timers = @ \ {f.id}],
           f.id, S.issued[f.id].entry, f)

\* handleMessage, a response frame f.
HandleResponse(S, f) ==
  IF f.id \notin DOMAIN S.pending
  THEN S
  ELSE Complete([S EXCEPT !.pending = Without(@, f.id), !.timers = @ \ {f.id}],
                f.id, S.pending[f.id], f)

\* The text of a content array: its non-empty text parts, joined by "\n".
RECURSIVE JoinText(_)
JoinText(content) ==
  IF content = <<>> THEN <<>>
  ELSE LET c == Head(content)
           rest == JoinText(Tail(content))
       IN IF c.type = "text" /\ c.text # <<>>
          THEN IF rest = <<>> THEN c.text ELSE c.text \o <<"\n">> \o rest
          ELSE rest

\* handleChatEvent that keeps a text only for a run being waited for.
HandleChatEventWaitedRun(S, p) ==
  IF p.state = "final" /\ p.hasMessage /\ p.runId # 0 /\ p.isArray
     /\ JoinText(p.content) # <<>>
     /\ \E k \in DOMAIN S.calls :
          S.calls[k].pc = "agent.wait" /\ S.calls[k].run = p.runId
  THEN [S EXCEPT !.chatFinalTexts =
          (p.runId :> JoinText(p.content)) @@ Without(@, p.runId)]
  ELSE S

\* handleChatEvent(payload).
HandleChatEvent(S, p) ==
  IF p.state = "final" /\ p.hasMessage /\ p.runId # 0 /\ p.isArray
     /\ JoinText(p.content) # <<>>
  THEN [S EXCEPT !.chatFinalTexts =
          (p.runId :> JoinText(p.content)) @@ Without(@, p.runId)]
  ELSE S

\* The body of connect() after its first line: a new socket with its
\* connect timeout and handlers.
OpenSocket(S, caller) ==
  [S EXCEPT !.stopped = FALSE,
            !.socks = Append(@, [state |-> "connecting", connP |-> "pending",
                                 connTimer |-> TRUE, caller |-> caller,
                                 challenged |-> FALSE]),
            !.ws = Len(S.socks) + 1]

\* connect() without its first line.
ConnectAlways(S, caller) == OpenSocket(S, caller)

\* connect(), called by `caller`.
Connect(S, caller) ==
  IF S.connected /\ S.authenticated
  THEN S
  ELSE OpenSocket(S, caller)

\* The 'close' handler without its call of scheduleReconnect().
OnCloseNoReconnect(S, s) ==
  FlushPending([S EXCEPT !.connected = FALSE, !.authenticated = FALSE], "closed")

\* The 'close' handler that connect() attached to socket s.
OnClose(S, s) ==
  LET S1 == FlushPending([S EXCEPT !.connected = FALSE, !.authenticated = FALSE],
                         "closed")
  IN IF S1.stopped THEN S1 ELSE ScheduleReconnect(S1)

\* The 'error' handler that connect() attached to socket s.
OnError(S, s) ==
  IF ~S.connected
  THEN SettleConnect([S EXCEPT !.socks[s].connTimer = FALSE], s, "rejected")
  ELSE S

\* ws.close(): an open socket starts its closing handshake, a connecting
\* one aborts its handshake (and will emit 'error' and then 'close').
CloseSocket(st) ==
  IF st = "open" THEN "closing"
  ELSE IF st = "connecting" THEN "aborted"
  ELSE st

\* stop() without the flushPending.
StopClientNoFlush(S) ==
  LET S1 == [S EXCEPT !.stopped = TRUE, !.reconnectTimer = 0]
      S2 == IF S1.ws # 0
            THEN [S1 EXCEPT !.socks[S1.ws].state = CloseSocket(@), !.ws = 0]
            ELSE S1
  IN [S2 EXCEPT !.connected = FALSE, !.authenticated = FALSE]

\* stop().
StopClient(S) ==
  LET S1 == [S EXCEPT !.stopped = TRUE, !.reconnectTimer = 0]
      S2 == IF S1.ws # 0
            THEN [S1 EXCEPT !.socks[S1.ws].state = CloseSocket(@), !.ws = 0]
            ELSE S1
  IN FlushPending([S2 EXCEPT !.connected = FALSE, !.authenticated = FALSE],
                  "stopped")

\* The timer callback of request id: request()'s rejects, sendConnect()'s
\* only removes the entry.
OnRequestTimer(S, id) ==
  LET e == S.issued[id].entry
      S1 == [S EXCEPT !.timers = @ \ {id}, !.pending = Without(@, id)]
  IN IF e.kind = "req" THEN RejectEntry(S1, id, e, "timeout") ELSE S1

\* The callback of the reconnect timer.
OnReconnectTimer(S) ==
  LET S1 == [S EXCEPT !.reconnectTimer = 0] IN
  IF IsReady(S1)
  THEN S1
  ELSE Connect(S1, [by |-> "reconnect", call |-> 0])

\* sendMessage up to its first await.
StartSendMessage(S, k) ==
  IF ~IsReady(S)
  THEN [Connect(S, [by |-> "sendMessage", call |-> k])
          EXCEPT !.calls[k] = [@ EXCEPT !.pc = "connect", !.aw = Len(S.socks) + 1]]
  ELSE Request(S, k, "chat.send")

\* ------------------------------------------------------- the environment

TextPart(t) == [type |-> "text", text |-> t]

Parts == {TextPart(<<"a">>), TextPart(<<>>), [type |-> "image", text |-> <<"c">>]}

Contents == UNION {[1..n -> Parts] : n \in 0..lim.parts}

ChatPayloads ==
  {[runId |-> r, state |-> "final", hasMessage |-> TRUE, isArray |-> TRUE,
    content |-> c] : r \in {0} \cup Runs, c \in Contents}
  \cup
  {[runId |-> 1, state |-> st, hasMessage |-> h, isArray |-> a,
    content |-> <<TextPart(<<"a">>)>>] :
      st \in {"delta", "final"}, h \in BOOLEAN, a \in BOOLEAN}

\* The payloads the gateway answers a method with.  A run id is handed to
\* one chat.send only.
PayloadsFor(method) ==
  IF method = "chat.send"
  THEN {[runId |-> r, status |-> ""] :
          r \in {0} \cup (Runs \ {calls[k].run : k \in CallIds})}
  ELSE IF method = "agent.wait"
  THEN {[runId |-> 0, status |-> st] : st \in {"ok", "timeout", ""}}
  ELSE {NoPayload}

FramesFor(id) ==
  {[id |-> id, ok |-> TRUE, error |-> "", payload |-> p] :
      p \in PayloadsFor(issued[id].method)}
  \cup {[id |-> id, ok |-> FALSE, error |-> "", payload |-> NoPayload],
        [id |-> id, ok |-> TRUE, error |-> "denied", payload |-> NoPayload]}

NoFrame == [id |-> 0, ok |-> TRUE, error |-> "", payload |-> NoPayload]

Op(name, n, f) == [op |-> name, n |-> n, f |-> f]

Other == Op("other", 0, NoFrame)

Receiving(s) == socks[s].state \in {"open", "closing"}

\* The text a chat event carries for its run: the text parts of a final
\* event's content, one per line.
RECURSIVE Lines(_)
Lines(ts) ==
  IF Len(ts) = 0 THEN <<>>
  ELSE IF Len(ts) = 1 THEN ts[1]
  ELSE ts[1] \o <<"\n">> \o Lines(Tail(ts))

IsTextPart(c) == c.type = "text" /\ Len(c.text) > 0

ChatEventText(p) ==
  IF p.state = "final" /\ p.hasMessage /\ p.isArray /\ p.runId \in Runs
  THEN LET ps == SelectSeq(p.content, IsTextPart)
       IN Lines([i \in 1..Len(ps) |-> ps[i].text])
  ELSE <<>>

\* ---------------------------------------------------------------- actions

Commit(T0, op, stepStops, stepChats) ==
  LET T == Drain(T0) IN
  /\ T.nextId <= lim.reqs + 1
  /\ Len(T.socks) <= lim.socks
  /\ ws' = T.ws
  /\ connected' = T.connected
  /\ authenticated' = T.authenticated
  /\ stopped' = T.stopped
  /\ backoffMs' = T.backoffMs
  /\ reconnectTimer' = T.reconnectTimer
  /\ pending' = T.pending
  /\ chatFinalTexts' = T.chatFinalTexts
  /\ socks' = T.socks
  /\ timers' = T.timers
  /\ issued' = T.issued
  /\ replied' = T.replied
  /\ calls' = T.calls
  /\ nextId' = T.nextId
  /\ done' = T.done
  /\ fired' = T.fired
  /\ nChats' = nChats + stepChats
  /\ lim' = lim
  /\ finalSeen' = T.finalSeen
  /\ nSched' = T.nSched
  /\ nStops' = nStops + stepStops
  /\ lastOp' = op
  /\ UNCHANGED <<bsVars, auxVars>>

InitClient ==
  /\ ws = 0
  /\ connected = FALSE
  /\ authenticated = FALSE
  /\ stopped = FALSE
  /\ backoffMs = InitialBackoffMs
  /\ reconnectTimer = 0
  /\ pending = EmptyMap
  /\ chatFinalTexts = EmptyMap
  /\ socks = <<>>
  /\ timers = {}
  /\ issued = EmptyMap
  /\ replied = {}
  /\ calls = [k \in 1..lim.calls |-> IdleCall]
  /\ nextId = 1
  /\ done = EmptyMap
  /\ fired = <<>>
  /\ nChats = 0
  /\ finalSeen = EmptyMap
  /\ nSched = 0
  /\ nStops = 0
  /\ lastOp = Other

\* No body has been received.
InitParser ==
  /\ fullBody = <<>>
  /\ sseOuts = <<>>

\* An error object: err.statusCode (0 when the property is absent),
\* err.cfChallenge and err.message.
Err(code, cf, msg) == [statusCode |-> code, cfChallenge |-> cf, message |-> msg]

\* No sendMessage call is in progress.
IdleSend ==
  [pc |-> "idle", executor |-> FALSE, image |-> FALSE, attempt |-> 1,
   agent |-> FALSE, runExecutor |-> FALSE, tokens |-> FALSE, token |-> 0,
   sentinel |-> FALSE, iteration |-> 0, items |-> <<>>, fcs |-> <<>>,
   text |-> <<>>, err |-> Err(0, FALSE, ""), first |-> Err(0, FALSE, ""),
   lastStatus |-> 0, lastBody |-> <<>>, lastEvents |-> <<>>, input |-> <<>>,
   requests |-> 0,
   allTools |-> TRUE, varied |-> 0,
   tokenCalls |-> 0, refreshes |-> 0, retries |-> 0]

\* No executeTask call is in progress.
IdleRoute ==
  [pc |-> "idle", provider |-> "",
   config |-> [browser |-> FALSE, gateway |-> FALSE, openai |-> FALSE],
   tried |-> <<>>, result |-> [success |-> FALSE, output |-> "", error |-> ""]]

\* The chats that send messages to the bot.
ChatIds == 1..BotChats

\* The bot after startTelegramBot: empty queues, nothing running, no session.
IdleBot ==
  [queues |-> [c \in ChatIds |-> <<>>], running |-> {}, execs |-> {},
   session |-> [c \in ChatIds |-> 0], nMsgs |-> 0,
   enqueued |-> [c \in ChatIds |-> <<>>], started |-> [c \in ChatIds |-> <<>>],
   threw |-> {}, newAt |-> [c \in ChatIds |-> 0],
   reset |-> [c \in ChatIds |-> FALSE]]

\* The parts that a specification does not exercise stay as constructed.
InitAux == InitParser /\ call = IdleSend /\ route = IdleRoute /\ bot = IdleBot

IdleEval == [pc |-> "idle", fn |-> "", raw |-> <<"none">>, err |-> <<>>, recovers |-> 0]

DoneEval == [IdleEval EXCEPT !.pc = "done"]

\* A call that has returned or thrown is done; what the last step recorded
\* about a call is dropped.
Forget(ev) ==
  [k \in DOMAIN ev |->
     IF ev[k].pc \in {"ok", "failed", "done"}
     THEN DoneEval
     ELSE [ev[k] EXCEPT !.raw = <<"none">>, !.recovers = 0]]

\* `wait` is the delay of the sleep of recover() while it lasts.
\* `cleared` says, in the step in which warmup() ends, whether the Cloudflare
\* clearance step went through ("yes") or failed ("no").
IdleThread == [pc |-> "idle", waiter |-> 0, conn |-> 0, cleared |-> "none", wait |-> 0]

\* How the last step's start() ended is dropped: the caller is idle again.
Settled(th) ==
  [w \in DOMAIN th |->
     IF th[w].pc \in {"returned", "thrown"} THEN IdleThread ELSE th[w]]

InitBrowser ==
  /\ browser = 0
  /\ page = 0
  /\ chromeProcess = 0
  /\ bsStopped = FALSE
  /\ bsBackoffMs = BsInitialBackoffMs
  /\ reconnecting = FALSE
  /\ warmedUp = FALSE
  /\ procs = <<>>
  /\ conns = <<>>
  /\ threads = [w \in {"recover", "start", "stop"} |-> IdleThread]
  /\ evals = [k \in 1..MaxEvals |-> IdleEval]
  /\ nBsStops = 0
  /\ nBsStarts = 0
  /\ afterStop = FALSE

\* A caller invokes sendMessage.
SendMessage(k) ==
  /\ calls[k].pc = "idle"
  /\ \A j \in 1..(k - 1) : calls[j].pc # "idle"
  /\ Commit(StartSendMessage(GW, k), Other, 0, 0)

ApiSockets == Cardinality({s \in DOMAIN socks : socks[s].caller.by = "api"})

\* A caller invokes the public connect().
ApiConnect ==
  /\ IF connected /\ authenticated THEN TRUE ELSE ApiSockets < lim.apis
  /\ Commit(Connect(GW, [by |-> "api", call |-> 0]),
         IF connected /\ authenticated THEN Op("connect", 0, NoFrame) ELSE Other, 0, 0)

\* A caller invokes stop().
Stop ==
  /\ nStops < lim.stops
  /\ Commit(StopClient(GW), Other, 1, 0)

\* Socket s emits 'open'.
SockOpen(s) ==
  /\ socks[s].state = "connecting"
  /\ Commit([GW EXCEPT !.socks[s].state = "open", !.connected = TRUE],
            Other, 0, 0)

\* The handshake of socket s fails: 'error' and 'close' in one tick.
SockFail(s) ==
  /\ socks[s].state \in {"connecting", "aborted"}
  /\ Commit(OnClose(OnError([GW EXCEPT !.socks[s].state = "closed"], s), s),
            Other, 0, 0)

\* The open socket s emits 'error'; its 'close' follows in a later tick.
SockError(s) ==
  /\ socks[s].state = "open"
  /\ Commit(OnError([GW EXCEPT !.socks[s].state = "closing"], s),
            Other, 0, 0)

\* Socket s emits 'close'.
SockClose(s) ==
  /\ socks[s].state \in {"open", "closing"}
  /\ Commit(OnClose([GW EXCEPT !.socks[s].state = "closed"], s),
            Other, 0, 0)

\* Socket s delivers the connect.challenge event, which the gateway sends
\* once per connection.
Challenge(s) ==
  /\ Receiving(s)
  /\ ~socks[s].challenged
  /\ Commit(SendConnect([GW EXCEPT !.socks[s].challenged = TRUE], s), Other, 0, 0)

\* The gateway's response to request id arrives on the socket the request
\* was written to.
Response(id) ==
  /\ id \notin replied
  /\ issued[id].sock # 0
  /\ Receiving(issued[id].sock)
  /\ \E f \in FramesFor(id) :
       Commit(HandleResponse([GW EXCEPT !.replied = @ \cup {id}], f),
              IF id \in DOMAIN pending THEN Op("response", id, f) ELSE Other,
              0, 0)

\* Socket s delivers a chat event.
ChatEvent(s) ==
  /\ Receiving(s)
  /\ nChats < lim.chats
  /\ \E p \in ChatPayloads :
       Commit(HandleChatEvent(
                [GW EXCEPT !.finalSeen =
                   IF ChatEventText(p) # <<>>
                   THEN (p.runId :> ChatEventText(p)) @@ Without(@, p.runId)
                   ELSE @], p),
              Other, 0, 1)

\* The timer of request id fires.
RequestTimeout(id) ==
  /\ id \in timers
  /\ Commit(OnRequestTimer(GW, id), Other, 0, 0)

\* The connect timeout of socket s fires.
ConnectTimeout(s) ==
  /\ socks[s].connTimer
  /\ Commit(SettleConnect([GW EXCEPT !.socks[s].connTimer = FALSE], s, "rejected"),
            Other, 0, 0)

\* The reconnect timer fires.
ReconnectFire ==
  /\ reconnectTimer # 0
  /\ Commit(OnReconnectTimer(GW), Other, 0, 0)

DoSendMessage == \E k \in CallIds : SendMessage(k)
DoSockOpen == \E s \in DOMAIN socks : SockOpen(s)
DoSockFail == \E s \in DOMAIN socks : SockFail(s)
DoSockError == \E s \in DOMAIN socks : SockError(s)
DoSockClose == \E s \in DOMAIN socks : SockClose(s)
DoChallenge == \E s \in DOMAIN socks : Challenge(s)
DoChatEvent == \E s \in DOMAIN socks : ChatEvent(s)
DoConnectTimeout == \E s \in DOMAIN socks : ConnectTimeout(s)
DoResponse == \E id \in DOMAIN issued : Response(id)
DoRequestTimeout == \E id \in DOMAIN issued : RequestTimeout(id)

Next ==
  \/ DoSendMessage
  \/ ApiConnect
  \/ Stop
  \/ DoSockOpen
  \/ DoSockFail
  \/ DoSockError
  \/ DoSockClose
  \/ DoChallenge
  \/ DoChatEvent
  \/ DoConnectTimeout
  \/ DoResponse
  \/ DoRequestTimeout
  \/ ReconnectFire

Limits(so, rq, ca, st, ch, ap, ru, pa) ==
  [socks |-> so, reqs |-> rq, calls |-> ca, stops |-> st, chats |-> ch,
   apis |-> ap, runs |-> ru, parts |-> pa,
   bsStarts |-> MaxBsStarts, bsConns |-> MaxConns]

Init ==
  /\ lim = Limits(MaxSock, MaxReq, MaxCalls, MaxStops, MaxChats, MaxApis, MaxRuns,
                 MaxContent)
  /\ InitClient
  /\ InitBrowser
  /\ InitAux

Spec == Init /\ [][Next]_vars

InitCorr ==
  /\ lim = Limits(CorrSocks, CorrReqs, CorrCalls, CorrStops, CorrChats, CorrApis,
                  CorrRuns, CorrContent)
  /\ InitClient
  /\ InitBrowser
  /\ InitAux

SpecCorr == InitCorr /\ [][Next]_vars

\* A socket that emitted 'error', or whose close() was called, emits 'close'.
ClosingSocketCloses ==
  \E s \in DOMAIN socks : socks[s].state = "closing" /\ SockClose(s)

InitFair ==
  /\ lim = Limits(FairSocks, FairReqs, FairCalls, FairStops, FairChats, FairApis,
                  FairRuns, FairContent)
  /\ InitClient
  /\ InitBrowser
  /\ InitAux

SpecFair == InitFair /\ [][Next]_vars /\ WF_vars(ClosingSocketCloses)

(***************************************************************************)
(* Part II models BrowserService (src/unnamed/part_007): the Chrome         *)
(* process, the CDP connection and its page, recover() and the evaluate*   *)
(* calls.  An action is again one task of the event loop: every await of    *)
(* the code ends an action, and the completion of the awaited operation     *)
(* starts the next one.                                                     *)
(***************************************************************************)

\* Error messages are sequences of words; String.includes is the test for a
\* contiguous run of words.
Includes(msg, pat) ==
  \E i \in 0..(Len(msg) - Len(pat)) : SubSeq(msg, i + 1, i + Len(pat)) = pat

NotStartedError == <<"browser", "not", "started">>      \* '브라우저가 시작되지 않았습니다'
RecoveringError == <<"browser", "recovering", "retry">> \* '브라우저 복구 중, 재시도 필요'

\* The catch test with its first phrase only.
IsCrashErrorTargetOnly(msg) == Includes(msg, <<"Target", "closed">>)

\* The catch test of evaluateFetch, evaluateSSE and evaluateSSEStructured.
IsCrashError(msg) ==
  \/ Includes(msg, <<"Target", "closed">>)
  \/ Includes(msg, <<"Session", "closed">>)
  \/ Includes(msg, <<"page", "has", "been", "closed">>)

\* The service and its runtime as one record.
BS ==
  [browser |-> browser, page |-> page, chromeProcess |-> chromeProcess,
   stopped |-> bsStopped, backoffMs |-> bsBackoffMs,
   reconnecting |-> reconnecting, warmedUp |-> warmedUp, procs |-> procs,
   conns |-> conns, threads |-> Settled(threads), evals |-> Forget(evals)]

\* An evaluate* call ends by throwing e.
EvalThrow(B, k, e) == [B EXCEPT !.evals[k].pc = "failed", !.evals[k].err = e]

\* recover() returns to the evaluate* call awaiting it, which throws the
\* recovering error; a recover() called by an event handler has no awaiter.
RecoverReturn(B, waiter) ==
  IF waiter = 0 THEN B ELSE EvalThrow(B, waiter, RecoveringError)

\* start() returns to its caller w: recover()'s try block, or a caller of
\* the public method.
StartReturn(B, w) ==
  IF w = "recover"
  THEN RecoverReturn([B EXCEPT !.backoffMs = BsInitialBackoffMs,
                               !.reconnecting = FALSE,
                               !.threads[w] = [IdleThread EXCEPT !.pc = "returned"]],
                     B.threads[w].waiter)
  ELSE [B EXCEPT !.threads[w] = [IdleThread EXCEPT !.pc = "returned"]]

\* start() throws to its caller w: recover()'s catch block, or a caller of
\* the public method.
StartThrow(B, w) ==
  IF w = "recover"
  THEN RecoverReturn([B EXCEPT !.backoffMs = Min(@ * 2, BsMaxBackoffMs),
                               !.reconnecting = FALSE,
                               !.threads[w] = [IdleThread EXCEPT !.pc = "thrown"]],
                     B.threads[w].waiter)
  ELSE [B EXCEPT !.threads[w] = [IdleThread EXCEPT !.pc = "thrown"]]

\* start() up to the await in launchChrome(); `found` says whether a Chrome
\* binary is installed.
StartBody(B, w, found) ==
  IF B.browser # 0 /\ B.page # 0
  THEN StartReturn(B, w)
  ELSE IF ~found
  THEN StartThrow([B EXCEPT !.stopped = FALSE], w)
  ELSE [B EXCEPT !.stopped = FALSE,
                 !.procs = Append(@, "running"),
                 !.chromeProcess = Len(B.procs) + 1,
                 !.threads[w].pc = "waitForCDP"]

\* chromeProcess.kill('SIGTERM'); the field is cleared.
KillChrome(B) ==
  IF B.chromeProcess = 0
  THEN B
  ELSE [B EXCEPT !.procs[B.chromeProcess] = IF @ = "running" THEN "killed" ELSE @,
                 !.chromeProcess = 0]

\* browser.close() is called on the current connection.
CloseBrowser(B) ==
  [B EXCEPT !.conns[B.browser] = IF @ = "connected" THEN "closing" ELSE @]

\* recover() without the test of this.reconnecting.
RecoverBodyNoGuard(B, waiter) ==
  IF B.stopped
  THEN RecoverReturn(B, waiter)
  ELSE [B EXCEPT !.reconnecting = TRUE,
                 !.threads["recover"] = [IdleThread EXCEPT !.pc = "sleep", !.waiter = waiter,
                                                           !.wait = B.backoffMs]]

\* The body of recover() up to its await.
RecoverBody(B, waiter) ==
  IF B.stopped \/ B.reconnecting
  THEN RecoverReturn(B, waiter)
  ELSE [B EXCEPT !.reconnecting = TRUE,
                 !.threads["recover"] = [IdleThread EXCEPT !.pc = "sleep", !.waiter = waiter,
                                                           !.wait = B.backoffMs]]

\* recover(), called by evaluate* call `waiter` (0: by an event handler).
Recover(B, waiter) ==
  IF waiter = 0
  THEN RecoverBody(B, 0)
  ELSE RecoverBody([B EXCEPT !.evals[waiter].recovers = @ + 1], waiter)

\* recover() after its sleep, up to the next await.
RecoverWake(B, found) ==
  LET B1 == KillChrome([B EXCEPT !.threads["recover"].wait = 0]) IN
  IF B1.browser # 0
  THEN [CloseBrowser(B1) EXCEPT !.threads["recover"].pc = "close"]
  ELSE StartBody([B1 EXCEPT !.page = 0, !.warmedUp = FALSE], "recover", found)

\* recover() after the await of browser.close().
RecoverClosed(B, found) ==
  StartBody([B EXCEPT !.browser = 0, !.page = 0, !.warmedUp = FALSE], "recover", found)

\* launchChrome() after waitForCDP().
WaitedCDP(B, w, ok) ==
  IF ok THEN [B EXCEPT !.threads[w].pc = "connectOverCDP"] ELSE StartThrow(B, w)

\* connectCDP() after the await of connectOverCDP().
ConnectedCDP(B, w, ok, hasPage) ==
  IF ~ok
  THEN StartThrow(B, w)
  ELSE LET c == Len(B.conns) + 1 IN
       [B EXCEPT !.conns = Append(@, "connected"),
                 !.browser = c,
                 !.page = IF hasPage THEN c ELSE @,
                 !.threads[w].conn = c,
                 !.threads[w].pc = IF hasPage THEN "addInitScript" ELSE "newPage"]

\* connectCDP() after the await of newContext()/newPage().
NewPage(B, w, ok) ==
  IF ok
  THEN [B EXCEPT !.page = B.threads[w].conn, !.threads[w].pc = "addInitScript"]
  ELSE StartThrow(B, w)

\* connectCDP() after the await of addInitScript(), and warmup() up to its
\* await.
AddedInitScript(B, w, ok) ==
  IF ~ok THEN StartThrow(B, w)
  ELSE IF B.page = 0 THEN StartReturn(B, w)
  ELSE [B EXCEPT !.threads[w].pc = "warmup"]

\* warmup() with a catch block that rethrows.
WarmedUpOrAbort(B, w, ok) ==
  IF ok
  THEN [StartReturn([B EXCEPT !.warmedUp = TRUE, !.backoffMs = BsInitialBackoffMs], w)
          EXCEPT !.threads[w].cleared = "yes"]
  ELSE [StartThrow(B, w) EXCEPT !.threads[w].cleared = "no"]

\* warmup() after goto() and waitForCloudflareResolution(): a failure is
\* caught, and the page counts as warmed up either way.
WarmedUp(B, w, ok) ==
  [StartReturn([B EXCEPT !.warmedUp = TRUE,
                         !.backoffMs = IF ok THEN BsInitialBackoffMs ELSE @], w)
     EXCEPT !.threads[w].cleared = IF ok THEN "yes" ELSE "no"]

\* isReady().
BsIsReady == browser # 0 /\ page # 0 /\ warmedUp

\* The 'exit' handler of Chrome process p.
OnExit(B, p) ==
  LET B1 == [B EXCEPT !.procs[p] = "exited"] IN
  IF ~B1.stopped THEN Recover(B1, 0) ELSE B1

\* The 'disconnected' handler of connection c.
OnDisconnected(B, c) ==
  LET B1 == [B EXCEPT !.conns[c] = "disconnected", !.browser = 0, !.page = 0,
                      !.warmedUp = FALSE]
  IN IF ~B1.stopped THEN Recover(B1, 0) ELSE B1

\* stop() after its await.
StopRest(B) ==
  [KillChrome(B) EXCEPT !.page = 0, !.warmedUp = FALSE, !.threads["stop"] = IdleThread]

\* stop() up to its await.
StopService(B) ==
  LET B1 == [B EXCEPT !.stopped = TRUE] IN
  IF B1.browser # 0
  THEN [CloseBrowser(B1) EXCEPT !.threads["stop"].pc = "close"]
  ELSE StopRest(B1)

\* stop() after the await of browser.close().
StopClosed(B) == StopRest([B EXCEPT !.browser = 0])

\* evaluateFetch / evaluateSSE / evaluateSSEStructured up to page.evaluate().
Evaluate(B, k, fn) ==
  IF B.page = 0
  THEN EvalThrow([B EXCEPT !.evals[k].fn = fn], k, NotStartedError)
  ELSE [B EXCEPT !.evals[k].fn = fn, !.evals[k].pc = "evaluate"]

\* The catch block without the crash test.
EvaluateRejectedRaw(B, k, msg) ==
  EvalThrow([B EXCEPT !.evals[k].raw = msg], k, msg)

\* The catch block of evaluate* call k: page.evaluate() rejected with msg.
EvaluateRejected(B, k, msg) ==
  IF IsCrashError(msg)
  THEN Recover([B EXCEPT !.evals[k].raw = msg, !.evals[k].pc = "recover"], k)
  ELSE EvalThrow([B EXCEPT !.evals[k].raw = msg], k, msg)

\* The errors page.evaluate() rejects with.
EvalErrors ==
  {<<"page.evaluate", "Target", "closed">>,
   <<"Protocol", "error", "Session", "closed", "Most", "likely", "the", "page",
     "has", "been", "closed">>,
   <<"The", "page", "has", "been", "closed">>,
   <<"Target", "page", "context", "or", "browser", "has", "been", "closed">>,
   <<"Failed", "to", "fetch">>,
   <<>>}

EvalFns == {"evaluateFetch", "evaluateSSE", "evaluateSSEStructured"}

CommitBs(B, stepStops, stepStarts) ==
  /\ Len(B.procs) <= MaxProcs
  /\ Len(B.conns) <= lim.bsConns
  /\ browser' = B.browser
  /\ page' = B.page
  /\ chromeProcess' = B.chromeProcess
  /\ bsStopped' = B.stopped
  /\ bsBackoffMs' = B.backoffMs
  /\ reconnecting' = B.reconnecting
  /\ warmedUp' = B.warmedUp
  /\ procs' = B.procs
  /\ conns' = B.conns
  /\ threads' = B.threads
  /\ evals' = B.evals
  /\ nBsStops' = nBsStops + stepStops
  /\ nBsStarts' = nBsStarts + stepStarts
  /\ afterStop' = IF stepStops > 0 THEN TRUE
                  ELSE IF stepStarts > 0 THEN FALSE ELSE afterStop
  /\ UNCHANGED <<gwVars, auxVars>>

\* A caller invokes start().
BsStart ==
  /\ BS.threads["start"].pc = "idle"
  /\ nBsStarts < lim.bsStarts
  /\ \E found \in BOOLEAN :
       CommitBs(StartBody([BS EXCEPT !.threads["start"].pc = "start"], "start", found),
                0, 1)

\* A caller invokes stop().
BsStop ==
  /\ threads["stop"].pc = "idle"
  /\ nBsStops < MaxBsStops
  /\ CommitBs(StopService(BS), 1, 0)

\* The browser.close() that stop() awaits settles.
BsStopClosed ==
  /\ threads["stop"].pc = "close"
  /\ CommitBs(StopClosed(BS), 0, 0)

\* The sleep of recover() ends.
BsRecoverWake ==
  /\ threads["recover"].pc = "sleep"
  /\ \E found \in BOOLEAN : CommitBs(RecoverWake(BS, found), 0, 0)

\* The browser.close() that recover() awaits settles.
BsRecoverClosed ==
  /\ threads["recover"].pc = "close"
  /\ \E found \in BOOLEAN : CommitBs(RecoverClosed(BS, found), 0, 0)

Starters == {"recover", "start"}

\* waitForCDP() settles.
BsWaitedCDP ==
  \E w \in Starters, ok \in BOOLEAN :
    /\ threads[w].pc = "waitForCDP"
    /\ CommitBs(WaitedCDP(BS, w, ok), 0, 0)

\* connectOverCDP() settles.
BsConnectedCDP ==
  \E w \in Starters, ok \in BOOLEAN, hasPage \in BOOLEAN :
    /\ threads[w].pc = "connectOverCDP"
    /\ CommitBs(ConnectedCDP(BS, w, ok, hasPage), 0, 0)

\* newContext()/newPage() settles.
BsNewPage ==
  \E w \in Starters, ok \in BOOLEAN :
    /\ threads[w].pc = "newPage"
    /\ CommitBs(NewPage(BS, w, ok), 0, 0)

\* addInitScript() settles.
BsAddedInitScript ==
  \E w \in Starters, ok \in BOOLEAN :
    /\ threads[w].pc = "addInitScript"
    /\ CommitBs(AddedInitScript(BS, w, ok), 0, 0)

\* The navigation and the Cloudflare wait of warmup() settle.
BsWarmedUp ==
  \E w \in Starters, ok \in BOOLEAN :
    /\ threads[w].pc = "warmup"
    /\ CommitBs(WarmedUp(BS, w, ok), 0, 0)

\* A Chrome process exits.
BsChromeExit ==
  \E p \in DOMAIN procs :
    /\ procs[p] \in {"running", "killed"}
    /\ CommitBs(OnExit(BS, p), 0, 0)

\* A CDP connection is lost or closed.
BsDisconnected ==
  \E c \in DOMAIN conns :
    /\ conns[c] \in {"connected", "closing"}
    /\ CommitBs(OnDisconnected(BS, c), 0, 0)

\* A caller invokes one of the evaluate* methods.
BsEvaluate ==
  \E k \in DOMAIN evals, fn \in EvalFns :
    /\ evals[k].pc = "idle"
    /\ \A j \in 1..(k - 1) : evals[j].pc # "idle"
    /\ CommitBs(Evaluate(BS, k, fn), 0, 0)

\* page.evaluate() resolves.
BsEvaluateResolved ==
  \E k \in DOMAIN evals :
    /\ evals[k].pc = "evaluate"
    /\ CommitBs([BS EXCEPT !.evals[k].pc = "ok"], 0, 0)

\* page.evaluate() rejects.
BsEvaluateRejected ==
  \E k \in DOMAIN evals, msg \in EvalErrors :
    /\ evals[k].pc = "evaluate"
    /\ CommitBs(EvaluateRejected(BS, k, msg), 0, 0)

NextBrowser ==
  \/ BsStart
  \/ BsStop
  \/ BsStopClosed
  \/ BsRecoverWake
  \/ BsRecoverClosed
  \/ BsWaitedCDP
  \/ BsConnectedCDP
  \/ BsNewPage
  \/ BsAddedInitScript
  \/ BsWarmedUp
  \/ BsChromeExit
  \/ BsDisconnected
  \/ BsEvaluate
  \/ BsEvaluateResolved
  \/ BsEvaluateRejected

InitBs ==
  /\ lim = Limits(0, 0, 0, 0, 0, 0, 0, 0)
  /\ InitClient
  /\ InitBrowser
  /\ InitAux

SpecBrowser == InitBs /\ [][NextBrowser]_vars

\* The service with callers that call start() more than once.
InitRace ==
  /\ lim = [Limits(0, 0, 0, 0, 0, 0, 0, 0) EXCEPT !.bsStarts = RaceStarts,
                                                  !.bsConns = RaceConns]
  /\ InitClient
  /\ InitBrowser
  /\ InitAux

SpecRace == InitRace /\ [][NextBrowser]_vars

(***************************************************************************)
(* Part III models the SSE parser that evaluateSSEStructured runs inside    *)
(* the page (src/unnamed/part_007, lines 527-541).  A line of the body is a *)
(* sequence of tokens: the prefix "data: ", white space, and JSON texts.    *)
(***************************************************************************)

\* What JSON.parse returns for the texts it accepts: the kind of the value
\* and its `type` property (<<>> when the value has none).
JsonValue ==
  [t \in {"{\"type\":\"delta\"}", "{\"type\":\"done\"}", "{\"type\":\"\"}",
          "{\"id\":1}", "null", "7", "[]", "\"type\""} |->
     CASE t = "{\"type\":\"delta\"}" -> [kind |-> "object", type |-> <<"delta">>]
       [] t = "{\"type\":\"done\"}"  -> [kind |-> "object", type |-> <<"done">>]
       [] t = "{\"type\":\"\"}"      -> [kind |-> "object", type |-> <<"">>]
       [] t = "{\"id\":1}"           -> [kind |-> "object", type |-> <<>>]
       [] t = "null"                 -> [kind |-> "null", type |-> <<>>]
       [] t = "7"                    -> [kind |-> "number", type |-> <<>>]
       [] t = "[]"                   -> [kind |-> "array", type |-> <<>>]
       [] t = "\"type\""             -> [kind |-> "string", type |-> <<>>]]

\* Texts that JSON.parse rejects with a SyntaxError.
NonJson == {"{\"type\":", "hello", "[DONE]"}

WhiteSpace == {" ", "\r"}

\* String.prototype.trim.
RECURSIVE Trim(_)
Trim(ts) ==
  IF ts = <<>> THEN ts
  ELSE IF Head(ts) \in WhiteSpace THEN Trim(Tail(ts))
  ELSE IF ts[Len(ts)] \in WhiteSpace THEN Trim(SubSeq(ts, 1, Len(ts) - 1))
  ELSE ts

\* The body of the try block for one payload: JSON.parse, the read of
\* data.type and the push.  `thrown` says that an exception left the block.
PushEvent(payload, events) ==
  IF Len(payload) # 1 \/ payload \notin Seq(DOMAIN JsonValue)
  THEN [thrown |-> TRUE, events |-> events]             \* SyntaxError
  ELSE LET data == JsonValue[payload[1]] IN
       IF data.kind = "null"
       THEN [thrown |-> TRUE, events |-> events]        \* TypeError: null.type
       ELSE IF data.type # <<>> /\ data.type # <<"">>
       THEN [thrown |-> FALSE,
             events |-> Append(events, [type |-> data.type[1], data |-> data])]
       ELSE [thrown |-> FALSE, events |-> events]

\* The try block without its catch.
TryPushNoCatch(payload, events) == PushEvent(payload, events)

\* try { ... } catch { }: a failure of the block is ignored.
TryPush(payload, events) ==
  LET r == PushEvent(payload, events) IN
  IF r.thrown THEN [thrown |-> FALSE, events |-> events] ELSE r

\* The loop with a continue in the place of the break.
RECURSIVE ParseLinesPastDone(_, _, _)
ParseLinesPastDone(lines, i, events) ==
  IF i > Len(lines)
  THEN [raised |-> FALSE, events |-> events]
  ELSE IF lines[i] = <<>> \/ Head(lines[i]) # "data: "
  THEN ParseLinesPastDone(lines, i + 1, events)
  ELSE LET payload == Trim(Tail(lines[i])) IN
       IF payload = <<"[DONE]">>
       THEN ParseLinesPastDone(lines, i + 1, events)
       ELSE LET r == TryPush(payload, events) IN
            IF r.thrown
            THEN [raised |-> TRUE, events |-> r.events]
            ELSE ParseLinesPastDone(lines, i + 1, r.events)

\* The loop over the lines from line i on.
RECURSIVE ParseLines(_, _, _)
ParseLines(lines, i, events) ==
  IF i > Len(lines)
  THEN [raised |-> FALSE, events |-> events]
  ELSE IF lines[i] = <<>> \/ Head(lines[i]) # "data: "
  THEN ParseLines(lines, i + 1, events)
  ELSE LET payload == Trim(Tail(lines[i])) IN
       IF payload = <<"[DONE]">>
       THEN [raised |-> FALSE, events |-> events]
       ELSE LET r == TryPush(payload, events) IN
            IF r.thrown
            THEN [raised |-> TRUE, events |-> r.events]
            ELSE ParseLines(lines, i + 1, r.events)

\* The lines a body is made of.
SseLines ==
  {<<"data: ", t>> : t \in DOMAIN JsonValue \cup NonJson}
    \cup {<<>>, <<"data: ">>, <<"data:", "{\"type\":\"delta\"}">>,
          <<"event: delta">>, <<" ", "data: ", "{\"type\":\"delta\"}">>,
          <<"data: ", " ", "{\"type\":\"delta\"}", "\r">>,
          <<"data: ", "[DONE]", "\r">>,
          <<"data: ", "{\"type\":\"delta\"}", " ", "{\"type\":\"done\"}">>}

Bodies == UNION {[1..n -> SseLines] : n \in 0..MaxLines}

\* The page parses the body it collected.
SseParse ==
  /\ Len(sseOuts) < MaxParses
  /\ sseOuts' = Append(sseOuts, ParseLines(fullBody, 1, <<>>))
  /\ UNCHANGED <<gwVars, bsVars, fullBody, call, route, bot>>

NextParser == SseParse

InitSse ==
  /\ lim = Limits(0, 0, 0, 0, 0, 0, 0, 0)
  /\ InitClient
  /\ InitBrowser
  /\ fullBody \in Bodies
  /\ sseOuts = <<>>
  /\ call = IdleSend
  /\ route = IdleRoute
  /\ bot = IdleBot

SpecParser == InitSse /\ [][NextParser]_vars

(***************************************************************************)
(* Part IV models one sendMessage call of ChatGPTBrowserClient             *)
(* (src/src/chatgpt-browser.ts): the token lookup, doRequest, the agent     *)
(* loop of doAgentRequest and handleErrorAndRetry.  Every await of the code *)
(* ends an action.  The browser service is taken as started.  Texts are     *)
(* sequences of pieces.                                                     *)
(***************************************************************************)

\* The text returned when the loop ends without an answer (line 370), and by
\* extractFromSSE when the stream carries no text (line 473).
PlaceholderText == <<"(agent iteration cap exceeded or no response)">>
EmptyAnswerText == <<"(no answer)">>

\* sendMessage returns text t / throws e; the locals of the run are gone.
Return(c, t) ==
  [c EXCEPT !.pc = "returned", !.text = t, !.iteration = 0, !.items = <<>>,
            !.input = <<>>, !.fcs = <<>>]

Throw(c, e) ==
  [c EXCEPT !.pc = "thrown", !.err = e, !.iteration = 0, !.items = <<>>,
            !.input = <<>>, !.fcs = <<>>]

\* getValidTokens(): `file` is what auth.json holds ("none", "fresh" or
\* "expired" by the exp claim), refreshOk what the token endpoint answers.
\* The access token is named by the number of refreshes it came from.
GetValidTokens(c, file, refreshOk) ==
  IF file = "none" THEN [c EXCEPT !.tokens = FALSE]
  ELSE IF file = "fresh" THEN [c EXCEPT !.tokens = TRUE]
  ELSE IF refreshOk
  THEN [c EXCEPT !.tokens = TRUE, !.token = @ + 1, !.refreshes = @ + 1]
  ELSE [c EXCEPT !.tokens = FALSE, !.refreshes = @ + 1]

\* doAgentRequest / doRequest up to the await of getSentinelToken().
StartRun(c, agent, executor, image) ==
  [c EXCEPT !.pc = "sentinel", !.agent = agent, !.runExecutor = executor,
            !.iteration = 0, !.requests = 0, !.allTools = TRUE, !.fcs = <<>>,
            !.lastStatus = 0, !.lastBody = <<>>, !.lastEvents = <<>>,
            !.input = <<>>,
            !.items = <<[type |-> "message", id |-> "", name |-> "",
                         args |-> IF image THEN "input_image" ELSE "",
                         output |-> <<>>]>>]

\* The retry of handleErrorAndRetry: with a tool executor the agent loop,
\* otherwise doRequest; the image is not passed on.
Retry(c) ==
  StartRun([c EXCEPT !.attempt = 2, !.retries = @ + 1], c.executor, c.executor,
           FALSE)

\* handleErrorAndRetry up to its await.
HandleErrorAndRetry(c, e) ==
  LET c1 == [c EXCEPT !.first = e] IN
  IF e.statusCode = 401 THEN [c1 EXCEPT !.pc = "refresh", !.tokenCalls = @ + 1]
  ELSE IF e.statusCode = 403 /\ e.cfChallenge THEN [c1 EXCEPT !.pc = "warmup"]
  ELSE IF e.statusCode = 429 THEN [c1 EXCEPT !.pc = "wait"]
  ELSE Throw(c1, e)

\* A catch block that handles the errors of the retry as well.
FailAndRetryAgain(c, e) == HandleErrorAndRetry(c, e)

\* An error leaves doRequest / doAgentRequest: the catch block of sendMessage
\* hands it to handleErrorAndRetry; an error of the retry leaves sendMessage.
Fail(c, e) == IF c.attempt = 1 THEN HandleErrorAndRetry(c, e) ELSE Throw(c, e)

\* throwHttpError: the error made from a response that is not 200.
ThrowHttpError(r) ==
  IF r.status = 401 THEN Err(401, FALSE, "401 Unauthorized")
  ELSE IF r.status = 403
  THEN LET isCf == Includes(r.body, <<"cf-">>) \/ Includes(r.body, <<"Cloudflare">>)
       IN Err(403, isCf, IF isCf THEN "403 Cloudflare Challenge" ELSE "403 Forbidden")
  ELSE IF r.status = 429 THEN Err(429, FALSE, "429 Too Many Requests")
  ELSE Err(0, FALSE, "API error")

\* evaluateSSE / evaluateSSEStructured is called: one streaming request.
IssueRequest(c) ==
  [c EXCEPT !.pc = "request", !.requests = @ + 1, !.input = c.items]

\* `continue` and the loop test of line 275.
Continue(c) ==
  IF c.iteration + 1 < MaxAgentIterations
  THEN IssueRequest([c EXCEPT !.iteration = @ + 1])
  ELSE Return(c, PlaceholderText)

\* Events of the response: type, and for an output item its item.type, name,
\* arguments and call_id; for a text event its text or delta.
FcEvent(name, args, id) ==
  [type |-> "response.output_item.done", itemType |-> "function_call",
   name |-> name, args |-> args, id |-> id, text |-> <<>>]

TextEvent(type, t) ==
  [type |-> type, itemType |-> "", name |-> "", args |-> "", id |-> "", text |-> t]

IsFunctionCall(e) ==
  e.type = "response.output_item.done" /\ e.itemType = "function_call"

IsTextDone(e) == e.type = "response.output_text.done"

\* filter(...).map(e => e.data.delta).join('')
RECURSIVE DeltaText(_)
DeltaText(events) ==
  IF events = <<>> THEN <<>>
  ELSE (IF Head(events).type = "response.output_text.delta"
        THEN Head(events).text ELSE <<>>) \o DeltaText(Tail(events))

\* Argument texts that JSON.parse rejects.
BadArgs == {"{\"path\":"}

\* ToolExecutor.execute: the output for a tool name, parsed arguments and,
\* for a tool that ran, whether it threw.  Every failure is caught and
\* becomes an output with success false.
KnownTools == {"read_file"}

ToolOutput(name, args, threw) ==
  IF name \notin KnownTools THEN <<FALSE, "Unknown tool">>
  ELSE IF args = "null" THEN <<FALSE, "Cannot read properties of null">>
  ELSE IF threw THEN <<FALSE, "ENOENT">>
  ELSE <<TRUE, "">>

\* The loop body with the two pushes in the other order.
PushOutputFirst(c, fc, out) ==
  [c EXCEPT !.fcs = Tail(@),
            !.items = @ \o <<[type |-> "function_call_output", id |-> fc.id,
                              name |-> "", args |-> "", output |-> out],
                             [type |-> "function_call", id |-> fc.id,
                              name |-> fc.name,
                              args |-> IF fc.args = "" THEN "{}" ELSE fc.args,
                              output |-> <<>>]>>]

\* The loop body without the push of the function_call item.
PushOutputOnly(c, fc, out) ==
  [c EXCEPT !.fcs = Tail(@),
            !.items = @ \o <<[type |-> "function_call_output", id |-> fc.id,
                              name |-> "", args |-> "", output |-> out]>>]

\* The two items pushed for a function call.
PushOutput(c, fc, out) ==
  [c EXCEPT !.fcs = Tail(@),
            !.items = @ \o <<[type |-> "function_call", id |-> fc.id,
                              name |-> fc.name,
                              args |-> IF fc.args = "" THEN "{}" ELSE fc.args,
                              output |-> <<>>],
                             [type |-> "function_call_output", id |-> fc.id,
                              name |-> "", args |-> "", output |-> out]>>]

\* The for loop over the function calls (lines 307-331), up to the next
\* await of a tool that runs, or to the end of the iteration.
RECURSIVE RunCalls(_)
RunCalls(c) ==
  IF c.fcs = <<>> THEN Continue(c)
  ELSE LET fc == Head(c.fcs) IN
       IF fc.args \in BadArgs
       THEN Fail(c, Err(0, FALSE, "SyntaxError"))               \* line 311
       ELSE IF ~c.runExecutor
       THEN Fail(c, Err(0, FALSE, "TypeError"))                 \* line 316
       ELSE IF fc.name \in KnownTools /\ fc.args # "null"
       THEN [c EXCEPT !.pc = "tool"]
       ELSE RunCalls(PushOutput(c, fc, ToolOutput(fc.name, fc.args, FALSE)))

\* extractFromSSE: the last non-empty final text, else the deltas, else the
\* placeholder.
ExtractFromSSE(events) ==
  LET dones == SelectSeq(events, LAMBDA e : IsTextDone(e) /\ e.text # <<>>) IN
  IF dones # <<>> THEN dones[Len(dones)].text
  ELSE IF DeltaText(events) # <<>> THEN DeltaText(events)
  ELSE EmptyAnswerText

\* OnResult with the fallback of lines 354-362 tried before the final-text
\* record.
OnResultDeltasFirst(c, r) ==
  LET c1 == [c EXCEPT !.lastStatus = IF r.throws THEN 0 ELSE r.status,
                      !.lastBody = r.body, !.lastEvents = r.events] IN
  IF r.throws THEN Fail([c1 EXCEPT !.allTools = FALSE], Err(0, FALSE, "evaluate failed"))
  ELSE IF r.status # 200 THEN Fail([c1 EXCEPT !.allTools = FALSE], ThrowHttpError(r))
  ELSE IF ~c.agent THEN Return(c1, ExtractFromSSE(r.events))
  ELSE LET functionCalls == SelectSeq(r.events, IsFunctionCall)
           textDone == SelectSeq(r.events, IsTextDone)
       IN IF functionCalls # <<>> THEN RunCalls([c1 EXCEPT !.fcs = functionCalls])
          ELSE LET c2 == [c1 EXCEPT !.allTools = FALSE] IN
               IF DeltaText(r.events) # <<>> THEN Return(c2, DeltaText(r.events))
               ELSE IF textDone # <<>> THEN Return(c2, textDone[1].text)
               ELSE Return(c2, PlaceholderText)

\* The continuation of the streaming request: r.throws says that
\* evaluateSSE* rejected, else r is the result.
OnResult(c, r) ==
  LET c1 == [c EXCEPT !.lastStatus = IF r.throws THEN 0 ELSE r.status,
                      !.lastBody = r.body, !.lastEvents = r.events] IN
  IF r.throws THEN Fail([c1 EXCEPT !.allTools = FALSE], Err(0, FALSE, "evaluate failed"))
  ELSE IF r.status # 200 THEN Fail([c1 EXCEPT !.allTools = FALSE], ThrowHttpError(r))
  ELSE IF ~c.agent THEN Return(c1, ExtractFromSSE(r.events))
  ELSE LET functionCalls == SelectSeq(r.events, IsFunctionCall)
           textDone == SelectSeq(r.events, IsTextDone)
       IN IF functionCalls # <<>> THEN RunCalls([c1 EXCEPT !.fcs = functionCalls])
          ELSE LET c2 == [c1 EXCEPT !.allTools = FALSE] IN
               IF textDone # <<>> THEN Return(c2, textDone[1].text)
               ELSE IF DeltaText(r.events) # <<>> THEN Return(c2, DeltaText(r.events))
               ELSE Return(c2, PlaceholderText)

\* The responses of the backend.
Result(status, body, events) ==
  [throws |-> FALSE, status |-> status, body |-> body, events |-> events]

GoodArgs == "{\"path\":\"a\"}"

\* The response a model gives that asks for the same tool every time.
ToolResult == Result(200, <<>>, <<FcEvent("read_file", GoodArgs, "call_1")>>)

\* Other responses that keep the loop going.
OtherToolResults ==
  {Result(200, <<>>, evs) : evs \in
     {<<FcEvent("launch", GoodArgs, "call_2")>>,
      <<FcEvent("read_file", "null", "call_2")>>,
      <<FcEvent("read_file", "", "call_2")>>,
      <<FcEvent("launch", "", "call_2"), FcEvent("read_file", GoodArgs, "call_3")>>,
      <<FcEvent("read_file", GoodArgs, "call_2"),
        TextEvent("response.output_text.done", <<"partial">>)>>}}

\* Responses that end the run.
FinalResults ==
  {Result(s, b, <<>>) : s \in {401, 429, 500}, b \in {<<>>}}
    \cup {Result(403, b, <<>>) : b \in {<<"Just", "a", "moment", "Cloudflare">>,
                                        <<"cf-", "ray">>, <<"Forbidden">>}}
    \cup {Result(200, <<>>, evs) : evs \in
            {<<>>,
             <<TextEvent("response.output_text.done", <<"hi">>)>>,
             <<TextEvent("response.output_text.done", <<>>)>>,
             <<TextEvent("response.output_text.delta", <<"h">>),
               TextEvent("response.output_text.delta", <<"i">>)>>,
             <<TextEvent("response.output_text.delta", <<"h">>),
               TextEvent("response.output_text.done", <<"hi">>)>>,
             <<TextEvent("response.output_item.done", <<>>)>>,
             <<FcEvent("read_file", "{\"path\":", "call_2")>>}}
    \cup {[throws |-> TRUE, status |-> 0, body |-> <<>>, events |-> <<>>]}

\* A caller invokes sendMessage, with or without a tool executor and an
\* image; the call awaits getValidTokens().
BcSendMessage ==
  /\ call.pc = "idle"
  /\ \E executor \in BOOLEAN, image \in BOOLEAN :
       call' = [call EXCEPT !.pc = "tokens", !.executor = executor, !.image = image]
  /\ UNCHANGED <<gwVars, bsVars, sseVars, route, bot>>

\* getValidTokens() of sendMessage settles.
BcTokens ==
  /\ call.pc = "tokens"
  /\ \E file \in {"none", "fresh", "expired"}, refreshOk \in BOOLEAN :
       LET c == GetValidTokens(call, file, refreshOk) IN
       call' = IF ~c.tokens
               THEN Throw(c, Err(0, FALSE, "no valid OAuth tokens"))
               ELSE StartRun(c, c.executor \/ c.image, c.executor, c.image)
  /\ UNCHANGED <<gwVars, bsVars, sseVars, route, bot>>

\* getSentinelToken() settles, with a token or (any failure) with null; the
\* first streaming request is sent.
BcSentinel ==
  /\ call.pc = "sentinel"
  /\ \E status \in {200, 401} :
       call' = IssueRequest([call EXCEPT !.sentinel = (status = 200)])
  /\ UNCHANGED <<gwVars, bsVars, sseVars, route, bot>>

\* The streaming request settles.
BcResult ==
  /\ call.pc = "request"
  /\ \E r \in {ToolResult} \cup OtherToolResults \cup FinalResults :
       /\ r \in OtherToolResults => call.varied < MaxVaried
       /\ call' = OnResult([call EXCEPT !.varied =
                                   IF r \in OtherToolResults THEN @ + 1 ELSE @], r)
  /\ UNCHANGED <<gwVars, bsVars, sseVars, route, bot>>

\* toolExecutor.execute() of a tool that ran settles.
BcToolDone ==
  /\ call.pc = "tool"
  /\ \E threw \in BOOLEAN :
       /\ threw => call.varied < MaxVaried
       /\ LET fc == Head(call.fcs)
              c == [call EXCEPT !.varied = IF threw THEN @ + 1 ELSE @]
          IN call' = RunCalls(PushOutput(c, fc, ToolOutput(fc.name, fc.args, threw)))
  /\ UNCHANGED <<gwVars, bsVars, sseVars, route, bot>>

\* getValidTokens() of handleErrorAndRetry settles.
BcRefreshed ==
  /\ call.pc = "refresh"
  /\ \E file \in {"none", "fresh", "expired"}, refreshOk \in BOOLEAN :
       LET c == GetValidTokens(call, file, refreshOk) IN
       call' = IF ~c.tokens
               THEN Throw(c, Err(0, FALSE, "token refresh failed"))
               ELSE Retry(c)
  /\ UNCHANGED <<gwVars, bsVars, sseVars, route, bot>>

\* refreshCloudflare() settles: it throws when the page is gone and swallows
\* every other failure.
BcCloudflare ==
  /\ call.pc = "warmup"
  /\ \E hasPage \in BOOLEAN :
       call' = IF hasPage THEN Retry(call)
               ELSE Throw(call, Err(0, FALSE, "browser not started"))
  /\ UNCHANGED <<gwVars, bsVars, sseVars, route, bot>>

\* The wait after a 429 ends.
BcWaited ==
  /\ call.pc = "wait"
  /\ call' = Retry(call)
  /\ UNCHANGED <<gwVars, bsVars, sseVars, route, bot>>

NextChat ==
  \/ BcSendMessage
  \/ BcTokens
  \/ BcSentinel
  \/ BcResult
  \/ BcToolDone
  \/ BcRefreshed
  \/ BcCloudflare
  \/ BcWaited

InitChat ==
  /\ lim = Limits(0, 0, 0, 0, 0, 0, 0, 0)
  /\ InitClient
  /\ InitBrowser
  /\ InitParser
  /\ call = IdleSend
  /\ route = IdleRoute
  /\ bot = IdleBot

SpecChat == InitChat /\ [][NextChat]_vars

(***************************************************************************)
(* Part V models executeTask and the provider router                       *)
(* executeOpenAIWithGateway (src/src/chatgpt-auth.ts, lines 212-308).  A    *)
(* stage is the sendMessage of the browser client, the sendMessage of the   *)
(* gateway client, or the Codex CLI; `tried` lists the stages started, each *)
(* with how it ended.                                                       *)
(***************************************************************************)

\* executeTask returns value v.
Done(r, v) == [r EXCEPT !.pc = "returned", !.result = v]

\* Stage `stage` is started.
Try(r, stage) ==
  [r EXCEPT !.pc = stage, !.tried = Append(@, [stage |-> stage, how |-> "running"])]

\* The stage that was running ended with `how`.
Ended(r, how) == [r EXCEPT !.tried[Len(r.tried)].how = how]

\* Lines 269-289: the Codex CLI, unless OpenAI is not enabled.
AfterGateway(r) ==
  IF ~r.config.openai
  THEN Done(r, [success |-> FALSE, output |-> "OpenAI is not enabled",
                error |-> "OpenAI not enabled"])
  ELSE Try(r, "cli")

\* Lines 243-266: the gateway stage, when enabled.
AfterBrowser(r) == IF r.config.gateway THEN Try(r, "gateway") ELSE AfterGateway(r)

\* Lines 216-241: the browser stage, when enabled.
ExecuteOpenAIWithGateway(r) ==
  IF r.config.browser THEN Try(r, "browser") ELSE AfterBrowser(r)

\* The errors a transport stage ends with: no valid tokens, an HTTP error
\* or an empty answer of the browser client; a closed connection or a
\* timeout of the gateway client.
StageErrors == {"not available", "timed out"}

\* The try block of a transport stage without the return of its result.
StageSettledFallThrough(r, how, next) ==
  IF next = "gateway" THEN AfterBrowser(Ended(r, how))
  ELSE AfterGateway(Ended(r, how))

\* The try block of a transport stage without its catch.
StageSettledNoCatch(r, how, next) ==
  IF how = "ok"
  THEN Done(Ended(r, "ok"), [success |-> TRUE, output |-> "text", error |-> ""])
  ELSE [Ended(r, how) EXCEPT !.pc = "thrown"]

\* sendMessage of a transport stage settles: its text is returned, or its
\* error is logged and the stages after it (from `next` on) get their turn.
StageSettled(r, how, next) ==
  IF how = "ok"
  THEN Done(Ended(r, "ok"), [success |-> TRUE, output |-> "text", error |-> ""])
  ELSE IF next = "gateway" THEN AfterBrowser(Ended(r, how))
  ELSE AfterGateway(Ended(r, how))

\* What executeOpenAITask and executeClaudeTask return: the output of the
\* CLI, also when it exited with an error but left output, else the error.
CliResults ==
  {[success |-> TRUE, output |-> "text", error |-> ""],
   [success |-> TRUE, output |-> "(empty response)", error |-> ""],
   [success |-> FALSE, output |-> "stderr", error |-> "Command failed"],
   [success |-> FALSE, output |-> "Command failed", error |-> "Command failed"]}

\* A caller invokes executeTask.
RtExecuteTask ==
  /\ route.pc = "idle"
  /\ \E provider \in {"openai", "claude"},
        config \in [browser : BOOLEAN, gateway : BOOLEAN, openai : BOOLEAN] :
       LET r == [route EXCEPT !.provider = provider, !.config = config] IN
       route' = IF provider = "openai"
                THEN ExecuteOpenAIWithGateway(r)
                ELSE Try(r, "claude")
  /\ UNCHANGED <<gwVars, bsVars, sseVars, call, bot>>

\* The sendMessage of the browser client settles.
RtBrowserSettled ==
  /\ route.pc = "browser"
  /\ \E how \in {"ok"} \cup StageErrors : route' = StageSettled(route, how, "gateway")
  /\ UNCHANGED <<gwVars, bsVars, sseVars, call, bot>>

\* The sendMessage of the gateway client settles.
RtGatewaySettled ==
  /\ route.pc = "gateway"
  /\ \E how \in {"ok"} \cup StageErrors : route' = StageSettled(route, how, "cli")
  /\ UNCHANGED <<gwVars, bsVars, sseVars, call, bot>>

\* executeOpenAITask / executeClaudeTask returns.
RtCliReturned ==
  /\ route.pc \in {"cli", "claude"}
  /\ \E v \in CliResults :
       route' = Done(Ended(route, IF v.success THEN "ok" ELSE v.error), v)
  /\ UNCHANGED <<gwVars, bsVars, sseVars, call, bot>>

NextRouter ==
  \/ RtExecuteTask
  \/ RtBrowserSettled
  \/ RtGatewaySettled
  \/ RtCliReturned

InitRouter ==
  /\ lim = Limits(0, 0, 0, 0, 0, 0, 0, 0)
  /\ InitClient
  /\ InitBrowser
  /\ InitParser
  /\ call = IdleSend
  /\ route = IdleRoute
  /\ bot = IdleBot

SpecRouter == InitRouter /\ [][NextRouter]_vars

(***************************************************************************)
(* Part VI models the message handling of the Telegram bot                  *)
(* (src/unnamed/part_005): ChatQueue, the /new command and handlePrompt     *)
(* with the session store.  A message is a prompt, a /run command, a        *)
(* command that no branch of the queued function handles, or /new.  An      *)
(* action is one task of the event loop; the queued function runs up to its *)
(* next await of a request that leaves the process.                         *)
(***************************************************************************)

\* The queued function of message t of chat c runs up to its first await:
\* handlePrompt reads the session and awaits executeTask, /run awaits the
\* notice it sends, and an unhandled command returns at once.
StartTask(b, c, t) ==
  LET b1 == [b EXCEPT !.started[c] = Append(@, t.n)]
      e == [n |-> t.n, chat |-> c, kind |-> t.kind, existing |-> 0, pc |-> "exec"]
  IN IF t.kind = "prompt"
     THEN [b1 EXCEPT !.execs = @ \cup {[e EXCEPT !.existing = b.session[c]]}]
     ELSE IF t.kind = "run"
     THEN [b1 EXCEPT !.execs = @ \cup {[e EXCEPT !.pc = "notice"]}]
     ELSE b1

\* The while loop of ChatQueue.process, entered at its test: it runs until a
\* function it awaits is pending, or the queue is empty.
RECURSIVE ProcessLoop(_, _)
ProcessLoop(b, c) ==
  IF b.queues[c] = <<>> THEN [b EXCEPT !.running = @ \ {c}]
  ELSE LET t == Head(b.queues[c])
           b1 == StartTask([b EXCEPT !.queues[c] = Tail(@)], c, t)
       IN IF t.kind = "noop" THEN ProcessLoop(b1, c) ELSE b1

\* ChatQueue.process without the test of the running set.
ProcessNoGuard(b, c) ==
  ProcessLoop([b EXCEPT !.running = @ \cup {c}], c)

\* ChatQueue.process.
Process(b, c) ==
  IF c \in b.running THEN b
  ELSE ProcessLoop([b EXCEPT !.running = @ \cup {c}], c)

\* ChatQueue.enqueue.
Enqueue(b, c, t) ==
  Process([b EXCEPT !.queues[c] = Append(@, t), !.enqueued[c] = Append(@, t.n)], c)

\* The function awaited by process settles, by return or by exception: the
\* loop goes on.
TaskEnds(b, e, threw) ==
  ProcessLoop([b EXCEPT !.execs = @ \ {e},
                        !.threw = IF threw THEN @ \cup {e.n} ELSE @], e.chat)

\* handleMessage: /new clears the session at once, every other message is
\* queued.
HandleMessage(b, c, kind) ==
  LET n == b.nMsgs + 1
      b1 == [b EXCEPT !.nMsgs = n]
  IN IF kind = "new"
     THEN [b1 EXCEPT !.session[c] = 0, !.newAt[c] = n, !.reset[c] = TRUE]
     ELSE Enqueue(b1, c, [n |-> n, kind |-> kind])

\* handlePrompt after executeTask returned r: the retry without session
\* after a session error, else the store of the session id; the reply is
\* awaited.
AfterExecute(b, e, r) ==
  LET c == e.chat IN
  IF e.pc = "exec" /\ ~r.success /\ e.existing # 0 /\ r.sessionError
  THEN [b EXCEPT !.session[c] = 0,
                 !.execs = (@ \ {e}) \cup {[e EXCEPT !.pc = "retry"]}]
  ELSE [b EXCEPT !.session[c] = IF r.sessionId # 0 THEN r.sessionId ELSE @,
                 !.reset[c] = IF e.n > b.newAt[c] THEN FALSE ELSE @,
                 !.execs = (@ \ {e}) \cup {[e EXCEPT !.pc = "reply"]}]

\* What executeTask returns to the prompt of e: whether it succeeded, the
\* session id of the run (0: none), and whether a failure reads as a session
\* error.
TaskResults(e) ==
  {[success |-> TRUE, sessionId |-> s, sessionError |-> FALSE] :
      s \in {0, e.n, e.existing}}
    \cup {[success |-> FALSE, sessionId |-> s, sessionError |-> x] :
            s \in {0, e.n}, x \in BOOLEAN}

\* A message of a chat arrives and handleMessage is called.
BotMessage ==
  /\ bot.nMsgs < MaxMsgs
  /\ \E c \in ChatIds, kind \in {"prompt", "run", "noop", "new"} :
       bot' = HandleMessage(bot, c, kind)
  /\ UNCHANGED <<gwVars, bsVars, sseVars, call, route>>

\* The notice of a /run command is sent, or sending it fails.
BotNoticed ==
  /\ \E e \in bot.execs, ok \in BOOLEAN :
       /\ e.pc = "notice"
       /\ bot' = IF ok
                 THEN [bot EXCEPT !.execs = (@ \ {e}) \cup {[e EXCEPT !.pc = "exec"]}]
                 ELSE TaskEnds(bot, e, TRUE)
  /\ UNCHANGED <<gwVars, bsVars, sseVars, call, route>>

\* executeTask returns.
BotExecuted ==
  /\ \E e \in bot.execs :
       /\ e.pc \in {"exec", "retry"}
       /\ \E r \in TaskResults(e) :
            bot' = IF e.kind = "prompt" THEN AfterExecute(bot, e, r)
                   ELSE [bot EXCEPT !.execs = (@ \ {e}) \cup {[e EXCEPT !.pc = "reply"]}]
  /\ UNCHANGED <<gwVars, bsVars, sseVars, call, route>>

\* The reply is sent, or sending it fails: the queued function is over.
BotReplied ==
  /\ \E e \in bot.execs, ok \in BOOLEAN :
       /\ e.pc = "reply"
       /\ bot' = TaskEnds(bot, e, ~ok)
  /\ UNCHANGED <<gwVars, bsVars, sseVars, call, route>>

NextBot ==
  \/ BotMessage
  \/ BotNoticed
  \/ BotExecuted
  \/ BotReplied

InitBot ==
  /\ lim = Limits(0, 0, 0, 0, 0, 0, 0, 0)
  /\ InitClient
  /\ InitBrowser
  /\ InitAux

SpecBot == InitBot /\ [][NextBot]_vars

\* ------------------------------------------------------------ properties

\* The last request sendMessage call k made.
LastRequestOf(k) ==
  LET ids == {i \in DOMAIN issued : issued[i].entry.call = k}
  IN IF ids = {} THEN 0 ELSE CHOOSE i \in ids : \A j \in ids : j <= i

\* C1: a callback of a pending entry is invoked at most once, whatever the
\* interleaving of response, timer, close flush and stop(); a step invokes
\* callbacks only of ids that are in the pending table when it starts, so
\* none is invoked for an id after its removal.
C1_CompletedAtMostOnce ==
  [][/\ \A id \in DOMAIN done' : done'[id] <= 1
     /\ \A i \in 1..Len(fired') : fired'[i].id \in DOMAIN pending]_vars

\* A request that its timer rejected, whose response frame arrived later.
C1_Witness ==
  \E k \in CallIds :
    /\ calls[k].pc = "failed"
    /\ calls[k].err = "timeout"
    /\ LastRequestOf(k) \in replied
    /\ done[LastRequestOf(k)] = 1

\* A socket emits 'close' in this step.
SocketCloses ==
  \E s \in DOMAIN socks : socks[s].state # "closed" /\ socks'[s].state = "closed"

Rejected(id, why) == Invocation(id, "reject", NoPayload, why)

\* C2: when a socket's close event fires, every entry then in the pending
\* table is rejected with the connection-closed error, its timer is
\* cancelled and the table is empty afterwards; an id that has left the
\* table never comes back and is never completed again.
C2_CloseFlushesPending ==
  [][/\ SocketCloses =>
          /\ DOMAIN pending' = {}
          /\ \A id \in DOMAIN pending :
               /\ \E i \in 1..Len(fired') : fired'[i] = Rejected(id, "closed")
               /\ id \notin timers'
               /\ done'[id] = 1
     /\ \A id \in DOMAIN issued \ DOMAIN pending :
          /\ id \notin DOMAIN pending'
          /\ id \notin timers'
          /\ done'[id] = done[id]]_vars

\* A close event has just rejected a request of a sendMessage call.
C2_Witness ==
  /\ pending = EmptyMap
  /\ \E i \in 1..Len(fired) :
       /\ fired[i].why = "closed"
       /\ issued[fired[i].id].entry.kind = "req"
       /\ calls[issued[fired[i].id].entry.call].err = "closed"

\* C3: when stop() has returned the pending table is empty, every entry
\* that was in it has been rejected, no reconnect timer is armed, and the
\* client is neither connected nor authenticated.
C3_StopFailsAll ==
  [][nStops' = nStops + 1 =>
       /\ DOMAIN pending' = {}
       /\ \A id \in DOMAIN pending :
            /\ \E i \in 1..Len(fired') : fired'[i] = Rejected(id, "stopped")
            /\ done'[id] = 1
       /\ reconnectTimer' = 0
       /\ ~connected'
       /\ ~authenticated']_vars

\* stop() has just rejected a request of a sendMessage call.
C3_Witness ==
  /\ nStops = 1
  /\ \E i \in 1..Len(fired) :
       /\ fired[i].why = "stopped"
       /\ issued[fired[i].id].entry.kind = "req"
       /\ calls[issued[fired[i].id].entry.call].err = "stopped"

FrameOutcome(f) ==
  IF f.ok /\ f.error = ""
  THEN Invocation(f.id, "resolve", f.payload, "")
  ELSE Rejected(f.id, IF f.error # "" THEN f.error ELSE DefaultError)

\* C4: a response frame for a pending id completes that id's entry, and
\* only it, with the frame's own payload or error, whichever other requests
\* are in flight and in whatever order their responses arrive; the waiting
\* sendMessage call gets that outcome and no other call moves.
C4_CorrelatedById ==
  [][lastOp'.op = "response" =>
       LET id == lastOp'.n
           f == lastOp'.f
       IN /\ id \in DOMAIN pending
          /\ f.id = id
          /\ fired' = <<FrameOutcome(f)>>
          /\ id \notin DOMAIN pending'
          /\ \A j \in DOMAIN pending \ {id} :
               /\ j \in DOMAIN pending'
               /\ pending'[j] = pending[j]
               /\ done'[j] = done[j]
          /\ pending[id].kind = "req" =>
               LET k == pending[id].call IN
               /\ \A j \in CallIds \ {k} : calls'[j] = calls[j]
               /\ FrameOutcome(f).cb = "reject" =>
                    /\ calls'[k].pc = "failed"
                    /\ calls'[k].err = FrameOutcome(f).why
               /\ (FrameOutcome(f).cb = "resolve" /\ calls[k].pc = "chat.send"
                     /\ f.payload.runId # 0) =>
                    calls'[k].run = f.payload.runId]_vars

\* The response to the newer of two requests in flight on one socket has
\* arrived first.
C4_Witness ==
  /\ lastOp.op = "response"
  /\ issued[lastOp.n].entry.kind = "req"
  /\ \E j \in DOMAIN pending :
       /\ j < lastOp.n
       /\ pending[j].kind = "req"
       /\ issued[j].sock = issued[lastOp.n].sock
       /\ j \notin replied

RECURSIVE Pow2(_)
Pow2(n) == IF n <= 0 THEN 1 ELSE 2 * Pow2(n - 1)

\* The delay of the n-th reconnect attempt in a row.
BackoffOf(n) == Min(InitialBackoffMs * Pow2(n - 1), MaxBackoffMs)

\* C6: while no stop() intervenes, the n-th reconnect timer armed since the
\* last successful authentication has the delay 1000 * 2^(n-1) ms capped at
\* 30000: 1000, 2000, 4000, ...
C6_BackoffSequence ==
  (nStops = 0 /\ reconnectTimer # 0 /\ nSched >= 1) =>
    reconnectTimer = BackoffOf(nSched)

\* The response to the agent.wait request of sendMessage call k arrives in
\* this step and is a success frame.
WaitResponse(k) ==
  /\ calls[k].pc = "agent.wait"
  /\ lastOp'.op = "response"
  /\ lastOp'.n = calls[k].aw
  /\ lastOp'.f.ok
  /\ lastOp'.f.error = ""

\* C7: when the agent.wait response has status ok and a final chat event
\* with non-empty text was received for the call's run at any earlier time,
\* sendMessage returns the text of that event.
C7_ReturnsFinalText ==
  [][\A k \in CallIds :
       (/\ WaitResponse(k)
        /\ lastOp'.f.payload.status = "ok"
        /\ calls[k].run \in DOMAIN finalSeen)
       => /\ calls'[k].pc = "ok"
          /\ calls'[k].text = finalSeen[calls[k].run]]_vars

\* sendMessage returned the text of a final event that arrived before its
\* agent.wait request was sent.
C7_Witness ==
  \E k \in CallIds :
    /\ calls[k].pc = "ok"
    /\ calls[k].run \in DOMAIN finalSeen
    /\ calls[k].text = finalSeen[calls[k].run]
    /\ lastOp.op = "response"
    /\ nChats >= 1

\* C8: when the agent.wait response has status ok and no final chat event
\* with text was received for the run, sendMessage returns the placeholder.
C8_PlaceholderWhenNoText ==
  [][\A k \in CallIds :
       (/\ WaitResponse(k)
        /\ lastOp'.f.payload.status = "ok"
        /\ calls[k].run \notin DOMAIN finalSeen)
       => /\ calls'[k].pc = "ok"
          /\ calls'[k].text = NoResponseText]_vars

\* sendMessage returned the placeholder.
C8_Witness ==
  \E k \in CallIds :
    /\ calls[k].pc = "ok"
    /\ calls[k].run \notin DOMAIN finalSeen
    /\ calls[k].text = NoResponseText
    /\ lastOp.op = "response"

\* C9: when the agent.wait response has a status other than ok, sendMessage
\* throws the agent.wait error carrying that status and returns no text,
\* also when a final event of the run was captured.
C9_FailsOnStatus ==
  [][\A k \in CallIds :
       (/\ WaitResponse(k)
        /\ lastOp'.f.payload.status # "ok")
       => /\ calls'[k].pc = "failed"
          /\ calls'[k].err = "agent.wait"
          /\ lastOp'.f.payload.status # ""
               => calls'[k].status = lastOp'.f.payload.status
          /\ calls'[k].text = <<>>]_vars

\* sendMessage failed on status timeout although the run's final event had
\* been captured.
C9_Witness ==
  \E k \in CallIds :
    /\ calls[k].pc = "failed"
    /\ calls[k].err = "agent.wait"
    /\ calls[k].status = "timeout"
    /\ calls[k].run \in DOMAIN finalSeen
    /\ calls[k].run \in DOMAIN chatFinalTexts

\* The phrases by which an error message says the page or session closed.
ClosedPhrases ==
  {<<"Target", "closed">>, <<"Session", "closed">>, <<"page", "has", "been", "closed">>}

IsClosedError(msg) == \E ph \in ClosedPhrases : Includes(msg, ph)

NoRaw == <<"none">>

C11_ClearanceNeverAborts ==
  \A w \in Starters :
    threads[w].cleared # "none" =>
      /\ threads[w].pc = "returned"
      /\ warmedUp
      /\ (browser # 0 /\ page # 0) => BsIsReady

\* start() has returned after a failed clearance step and isReady() is true.
C11_Witness ==
  /\ threads["start"].pc = "returned"
  /\ threads["start"].cleared = "no"
  /\ BsIsReady

\* C11 as stated: whenever launch and attach succeeded and the clearance
\* step has ended, start() has returned normally and isReady() is true.
C11_AsStated ==
  \A w \in Starters :
    threads[w].cleared # "none" => (threads[w].pc = "returned" /\ BsIsReady)

C13_CapWithPlaceholder ==
  /\ call.requests <= MaxAgentIterations
  /\ (call.pc \in {"returned", "thrown"} /\ call.agent /\ call.allTools
        /\ call.requests > 0) =>
       /\ call.pc = "returned"
       /\ call.text = PlaceholderText
       /\ call.requests = MaxAgentIterations

\* C14 as stated: no error raised while a tool invocation is handled ends
\* the call, and every invocation handled so far is followed in the
\* conversation by an output item for its call id, which carries the error
\* when the tool is unknown or its arguments are unusable.
C14_ToolFailuresFedBack ==
  /\ call.pc = "thrown" => call.err.message \notin {"SyntaxError", "TypeError"}
  /\ \A i \in DOMAIN call.items :
       call.items[i].type = "function_call" =>
         /\ i < Len(call.items)
         /\ call.items[i + 1].type = "function_call_output"
         /\ call.items[i + 1].id = call.items[i].id
         /\ (call.items[i].name \notin KnownTools \/ call.items[i].args = "null") =>
              (~call.items[i + 1].output[1] /\ call.items[i + 1].output[2] # "")

\* C15 as stated: when the token lookup that follows a first 401 settles,
\* exactly one refresh of the token has been attempted, and unless no token
\* could be obtained the same logical call (the agent loop for a call with
\* tools or an image, the plain request otherwise) is retried once; a 401
\* answered to the retry ends the call with the 401 error and neither a
\* refresh nor a retry follows.
C15_OneRefreshOneRetry ==
  [][/\ (call.pc = "refresh" /\ call'.pc # "refresh") =>
          /\ call'.refreshes = call.refreshes + 1
          /\ call'.pc # "thrown" =>
               /\ call'.pc = "sentinel"
               /\ call'.retries = 1
               /\ call'.agent = (call.executor \/ call.image)
     /\ (call.attempt = 2 /\ call.pc = "request" /\ call'.lastStatus = 401) =>
          /\ call'.pc = "thrown"
          /\ call'.err.statusCode = 401
          /\ call'.refreshes = call.refreshes
          /\ call'.retries = 1]_vars

\* The body of a 403 carries the anti-bot signature.
HasSignature(body) == \E i \in DOMAIN body : body[i] \in {"cf-", "Cloudflare"}

\* The recovery step that a first non-200 status calls for, "" when the
\* status is terminal.
RecoveryOf(status, body) ==
  IF status = 401 THEN "refresh"
  ELSE IF status = 403 /\ HasSignature(body) THEN "warmup"
  ELSE IF status = 429 THEN "wait"
  ELSE ""

\* The call ended with the error that throwHttpError makes of the status.
ThrewStatus(status) ==
  /\ call.pc = "thrown"
  /\ call.err.statusCode = IF status \in {401, 403, 429} THEN status ELSE 0
  /\ call.err.message \in {"401 Unauthorized", "403 Cloudflare Challenge",
                            "403 Forbidden", "429 Too Many Requests", "API error"}

\* What C16 says of every state but for the outcome of a failed recovery
\* step: at most one retry; a first 401, 403 with the signature or 429 has
\* the call in its recovery step; any other first non-200 status and any
\* non-200 status of the retry has ended the call with that error.
RetryContract(failed) ==
  /\ call.retries <= 1
  /\ call.retries = call.attempt - 1
  /\ call.pc \in {"refresh", "warmup", "wait"} => call.attempt = 1
  /\ (call.attempt = 1 /\ call.lastStatus \notin {0, 200}) =>
       IF RecoveryOf(call.lastStatus, call.lastBody) = ""
       THEN ThrewStatus(call.lastStatus)
       ELSE \/ call.pc = RecoveryOf(call.lastStatus, call.lastBody)
            \/ failed /\ call.pc = "thrown"
                 /\ call.err.message \in {"token refresh failed", "browser not started"}
  /\ (call.attempt = 2 /\ call.lastStatus \notin {0, 200}) =>
       ThrewStatus(call.lastStatus)
  /\ call.attempt = 2 =>
       RecoveryOf(call.first.statusCode,
                  IF call.first.cfChallenge THEN <<"cf-">> ELSE <<>>) # ""

\* C16 (as amended): one sendMessage performs at most one recover-and-retry;
\* a first 401, 403 with the anti-bot signature or 429 triggers its recovery
\* step, which is followed by one retry unless the recovery step itself
\* fails (no token can be obtained, or the page is gone), and that failure
\* ends the call; any other non-200 status and any non-200 status of the
\* retry is terminal.
C16_AtMostOneRetry == RetryContract(TRUE)

\* A 401 answered to the retry that followed a 429 has ended the call.
C16_Witness ==
  /\ call.attempt = 2
  /\ call.first.statusCode = 429
  /\ call.lastStatus = 401
  /\ call.pc = "thrown"
  /\ call.retries = 1

\* C16 as stated: the recovery step of a first 401, 403 with the signature
\* or 429 is always followed by the retry.
C16_AsStated == RetryContract(FALSE)

\* The place of a stage in the order of the router.
StageNo(stage) ==
  CASE stage = "browser" -> 1 [] stage = "gateway" -> 2 [] stage = "cli" -> 3
    [] OTHER -> 4

\* The configuration enables the stage.
StageOn(config, stage) ==
  CASE stage = "browser" -> config.browser
    [] stage = "gateway" -> config.gateway
    [] stage = "cli" -> config.openai
    [] OTHER -> FALSE

\* C17: the router starts its stages in the order browser, gateway, CLI;
\* it starts only enabled stages, each at most once, a stage only after
\* every enabled stage before it was started and has failed, and hence no
\* stage after one that succeeded.
C17_StagesInOrder ==
  route.provider = "openai" =>
    LET t == route.tried IN
    /\ \A i \in 1..Len(t) :
         /\ t[i].stage \in {"browser", "gateway", "cli"}
         /\ StageOn(route.config, t[i].stage)
    /\ \A i, j \in 1..Len(t) :
         i < j => StageNo(t[i].stage) < StageNo(t[j].stage)
    /\ \A i \in 1..Len(t) : \A s \in {"browser", "gateway", "cli"} :
         (StageOn(route.config, s) /\ StageNo(s) < StageNo(t[i].stage)) =>
           \E k \in 1..(i - 1) : t[k].stage = s /\ t[k].how \in StageErrors
    /\ \A i \in 1..Len(t) : t[i].how \in {"ok", "running"} => i = Len(t)
    /\ (route.pc = "returned" /\ Len(t) > 0) => t[Len(t)].how # "running"

\* The browser and the gateway stage failed and the CLI, the last stage,
\* has returned its output.
C17_Witness ==
  /\ route.pc = "returned"
  /\ route.provider = "openai"
  /\ Len(route.tried) = 3
  /\ route.tried[1] = [stage |-> "browser", how |-> "timed out"]
  /\ route.tried[2] = [stage |-> "gateway", how |-> "not available"]
  /\ route.tried[3] = [stage |-> "cli", how |-> "ok"]

\* Every enabled stage of the configuration was started and has failed.
AllEnabledFailed(r) ==
  \A s \in {"browser", "gateway", "cli"} :
    StageOn(r.config, s) =>
      \E k \in 1..Len(r.tried) :
        r.tried[k].stage = s /\ r.tried[k].how \notin {"ok", "running"}

C18_NoStage ==
  /\ route.pc = "returned"
  /\ route.provider = "openai"
  /\ route.tried = <<>>
  /\ ~route.result.success

\* The 'connect' requests that were written to socket s after the
\* connect.challenge event of the same socket, and that the gateway has
\* answered with a response whose resolve callback has run.
AuthDoneOn(s) ==
  {id \in DOMAIN issued :
     /\ issued[id].method = "connect"
     /\ issued[id].entry.sock = s
     /\ issued[id].sock = s
     /\ id \in replied
     /\ done[id] > 0}

\* C19: the client is authenticated only after connect() made the current
\* socket, the socket opened, it delivered the challenge, the auth request
\* was sent on it and its ok response arrived, in this order and since the
\* last disconnect.
C19_AuthenticatedOnlyByHandshake ==
  authenticated =>
    /\ ws # 0
    /\ socks[ws].state \in {"open", "closing"}
    /\ connected
    /\ socks[ws].challenged
    /\ AuthDoneOn(ws) # {}

\* The 'close' event of socket s occurs in this step.
CloseEvent(s) == socks[s].state # "closed" /\ socks'[s].state = "closed"

\* Socket s was authenticated: the response to a connect request written
\* to it has resolved its entry.
WasAuthenticated(s) ==
  \E id \in DOMAIN issued :
    /\ issued[id].method = "connect"
    /\ issued[id].sock = s
    /\ id \in replied
    /\ done[id] > 0

\* C20: the close of a socket, also the one that follows a socket error,
\* leaves the client disconnected (connected and authenticated false), with
\* a reconnect timer armed unless the client is stopped and with none armed
\* when it is stopped; and a socket that emitted 'error' or is being closed
\* leads to the client being disconnected.
C20_CloseDisconnectsAndReconnects ==
  /\ [][\A s \in DOMAIN socks :
          CloseEvent(s) =>
            /\ ~connected'
            /\ ~authenticated'
            /\ IF stopped' THEN reconnectTimer' = 0 ELSE reconnectTimer' # 0]_vars
  /\ (\E s \in DOMAIN socks : socks[s].state = "closing")
       ~> (~connected /\ ~authenticated)

\* A socket that was authenticated has closed; the client is disconnected,
\* not stopped, and its reconnect timer is armed.
C20_Witness ==
  \E s \in DOMAIN socks :
    /\ socks[s].state = "closed"
    /\ WasAuthenticated(s)
    /\ ~connected
    /\ ~authenticated
    /\ ~stopped
    /\ reconnectTimer # 0

\* C21: at most one reconnect timer is outstanding: a step arms at most one
\* timer, and only when none is armed and the client is not stopped;
\* scheduleReconnect() called while a timer is armed or while the client is
\* stopped changes nothing, and a stopped client has no timer armed.
C21_OneReconnectTimer ==
  /\ []((reconnectTimer # 0 \/ stopped) => ScheduleReconnect(GW) = GW)
  /\ [](stopped => reconnectTimer = 0)
  /\ [][nSched' > nSched =>
          /\ nSched' = nSched + 1
          /\ reconnectTimer = 0
          /\ reconnectTimer' # 0
          /\ ~stopped']_vars

\* A reconnect attempt has failed: its close handler armed the timer, and
\* the scheduleReconnect() of the catch block, called after the backoff was
\* doubled, armed nothing.
C21_Witness ==
  /\ reconnectTimer # 0
  /\ backoffMs > reconnectTimer
  /\ nSched = 2

\* The auth (connect) requests that the challenge of socket s caused.
AuthIds(s) ==
  {id \in DOMAIN issued :
     issued[id].entry.kind = "auth" /\ issued[id].entry.sock = s}

\* A response frame that handleMessage takes as a failure.
FailureFrame(f) == f.ok = FALSE \/ f.error # ""

\* The last step handled a response to a pending auth request.
AuthResponse(op) == op.op = "response" /\ issued'[op.n].entry.kind = "auth"

\* The auth request of socket s was not answered before its timer fired.
AuthLapsed(s) ==
  \E id \in AuthIds(s) : id \notin DOMAIN pending /\ done[id] = 0

\* C22: an auth request that is answered with a failure, or not answered,
\* ends its connect attempt: the client does not become authenticated by
\* it and its connect() promise is never resolved but stays due for the
\* rejection by the connect timeout; the failure neither stops the client
\* nor disarms the reconnect timer.  Only an ok response to a pending auth
\* request authenticates the client or resolves a connect() promise.
C22_AuthFailureIsTerminal ==
  /\ [](\A s \in DOMAIN socks :
          /\ Cardinality(AuthIds(s)) <= 1
          /\ socks[s].connP = "pending" => socks[s].connTimer
          /\ AuthLapsed(s) => socks[s].connP # "resolved")
  /\ [][/\ (AuthResponse(lastOp') /\ FailureFrame(lastOp'.f)) =>
             LET s == issued[lastOp'.n].entry.sock IN
             /\ authenticated' = authenticated
             /\ socks'[s].connP = socks[s].connP
             /\ socks'[s].connTimer = socks[s].connTimer
             /\ stopped' = stopped
             /\ reconnectTimer' = reconnectTimer
             /\ lastOp'.n \notin DOMAIN pending'
        /\ ((authenticated' /\ ~authenticated)
             \/ \E s \in DOMAIN socks :
                  socks'[s].connP = "resolved" /\ socks[s].connP # "resolved") =>
             /\ AuthResponse(lastOp')
             /\ ~FailureFrame(lastOp'.f)
             /\ lastOp'.n \in DOMAIN pending]_vars

\* The auth request of an earlier socket was not answered, and the socket
\* that a reconnect attempt made afterwards is authenticated.
C22_Witness ==
  \E s1, s2 \in DOMAIN socks :
    /\ s1 < s2
    /\ AuthLapsed(s1)
    /\ socks[s1].connP = "rejected"
    /\ socks[s2].caller.by = "reconnect"
    /\ ws = s2
    /\ authenticated
    /\ AuthDoneOn(s2) # {}

\* The auth request of a socket was just answered with a failure: the
\* client is not authenticated and the connect() promise is still pending.
C22_AnsweredWithFailure ==
  /\ lastOp.op = "response"
  /\ FailureFrame(lastOp.f)
  /\ issued[lastOp.n].entry.kind = "auth"
  /\ ~authenticated
  /\ ~stopped
  /\ socks[issued[lastOp.n].entry.sock].connP = "pending"

\* C23: a response frame whose id has no pending entry, as after the local
\* timeout of the request, is dropped: the step invokes no callback and
\* changes neither the pending table, nor the timers, nor the connection
\* flags, nor any sendMessage call, nor any other field of the client.
C23_LateResponseDiscarded ==
  [][\A id \in DOMAIN issued :
       (id \in replied' /\ id \notin replied /\ id \notin DOMAIN pending) =>
         /\ fired' = <<>>
         /\ UNCHANGED <<pending, timers, done, calls, connected, authenticated,
                        ws, stopped, backoffMs, reconnectTimer, chatFinalTexts,
                        socks, issued, nextId>>]_vars

\* The request of a sendMessage call timed out and made the call fail, its
\* response arrived afterwards, and the request of another call is still
\* in flight.
C23_Witness ==
  \E k \in CallIds :
    /\ calls[k].pc = "failed"
    /\ calls[k].err = "timeout"
    /\ LastRequestOf(k) \in replied
    /\ LastRequestOf(k) \notin DOMAIN pending
    /\ done[LastRequestOf(k)] = 1
    /\ \E id \in DOMAIN pending :
         /\ pending[id].kind = "req"
         /\ pending[id].call # k
         /\ id \in timers

\* C24: the table entry of a run is read and deleted once, when the wait
\* of the run resolves: once sendMessage has returned for run r, the table
\* holds no entry for r.
C24_EntryPrunedOnReturn ==
  \A k \in CallIds :
    calls[k].pc = "ok" => calls[k].run \notin DOMAIN chatFinalTexts

\* The step in which sendMessage returns for run r reads the entry of r
\* and leaves the table without it.
C24_PrunedByTheReturn ==
  [][\A k \in CallIds :
       (calls[k].pc # "ok" /\ calls'[k].pc = "ok") =>
         LET r == calls'[k].run IN
         /\ r \notin DOMAIN chatFinalTexts'
         /\ r \in DOMAIN chatFinalTexts => calls'[k].text = chatFinalTexts[r]
         /\ r \notin DOMAIN chatFinalTexts => calls'[k].text = NoResponseText]_vars

\* sendMessage has failed for run r after the wait, and the table holds an
\* entry for r.
C24_EntryLeftByFailedWait ==
  \E k \in CallIds :
    /\ calls[k].pc = "failed"
    /\ calls[k].err = "agent.wait"
    /\ calls[k].run \in DOMAIN chatFinalTexts

\* A recover() is between its guard and its finally block.
RecoveryInFlight ==
  threads["recover"].pc \in
    {"sleep", "close", "waitForCDP", "connectOverCDP", "newPage",
     "addInitScript", "warmup"}

\* The step runs a trigger of recover(): the exit of a Chrome process, the
\* loss of a CDP connection, or the catch block of an evaluate* call that
\* found a crash error.
RecoverTrigger ==
  \/ \E p \in DOMAIN procs : procs[p] # "exited" /\ procs'[p] = "exited"
  \/ \E c \in DOMAIN conns : conns[c] # "disconnected" /\ conns'[c] = "disconnected"
  \/ \E k \in DOMAIN evals : evals'[k].recovers = 1

\* C25: recover() is serialized by this.reconnecting: the guard is set
\* exactly while a recovery is in flight, so it is released when the
\* recovery ends, by success or by failure; a trigger that arrives during
\* a recovery leaves that recovery as it is and starts no other; and a
\* recovery starts only from a trigger, with the guard free.
C25_RecoverSerialized ==
  /\ [](reconnecting <=> RecoveryInFlight)
  /\ [][(RecoverTrigger /\ reconnecting) =>
          /\ threads'["recover"] = threads["recover"]
          /\ reconnecting']_vars
  /\ [][(threads'["recover"].pc = "sleep" /\ threads["recover"].pc # "sleep") =>
          /\ ~reconnecting
          /\ ~RecoveryInFlight
          /\ RecoverTrigger]_vars

\* An evaluate* call found a crash error while a recovery started by an
\* event was restarting Chrome: its recover() returned at the guard and the
\* recovery in flight goes on.
C25_Witness ==
  \E k \in DOMAIN evals :
    /\ evals[k].recovers = 1
    /\ evals[k].pc = "failed"
    /\ evals[k].err = RecoveringError
    /\ reconnecting
    /\ threads["recover"].waiter = 0
    /\ threads["recover"].pc \in {"close", "waitForCDP", "connectOverCDP", "warmup"}

\* recover() ends in this step by its catch block.
RecoveryFails == threads'["recover"].pc = "thrown"

\* recover() ends in this step without an error.
RecoverySucceeds == threads'["recover"].pc = "returned"

\* The waits of the doubling backoff.
BackoffSteps == {1000, 2000, 4000, 8000, 16000, 30000}

\* The wait of a recovery is the backoff at its start, one of 1000, 2000,
\* 4000, 8000, 16000, 30000; a failed recovery doubles the backoff up to
\* 30000 and a successful one resets it to 1000.
C26_Backoff ==
  /\ [](bsBackoffMs \in BackoffSteps)
  /\ [](threads["recover"].pc = "sleep" => threads["recover"].wait \in BackoffSteps)
  /\ [][(threads'["recover"].pc = "sleep" /\ threads["recover"].pc # "sleep") =>
          threads'["recover"].wait = bsBackoffMs]_vars
  /\ [][RecoveryFails => bsBackoffMs' = Min(2 * bsBackoffMs, BsMaxBackoffMs)]_vars
  /\ [][RecoverySucceeds => bsBackoffMs' = BsInitialBackoffMs]_vars

\* C26: recoveries wait by the doubling backoff from 1000 ms to 30000 ms,
\* a successful recovery resets the wait to 1000 ms, and when a recovery
\* has failed the service is not ready.
C26_BackoffAndNotReady ==
  /\ C26_Backoff
  /\ [][RecoveryFails => ~BsIsReady']_vars

\* Line i of the body carries the data prefix.
HasDataPrefix(lines, i) == lines[i] # <<>> /\ Head(lines[i]) = "data: "

\* Line i is a termination-sentinel line.
IsSentinel(lines, i) ==
  HasDataPrefix(lines, i) /\ Trim(Tail(lines[i])) = <<"[DONE]">>

\* Line i decodes to a JSON value with a type discriminator.
DecodesWithType(lines, i) ==
  LET payload == Trim(Tail(lines[i])) IN
  /\ Len(payload) = 1
  /\ payload[1] \in DOMAIN JsonValue
  /\ JsonValue[payload[1]].type \notin {<<>>, <<"">>}

\* The lines that contribute an event.
EventLines(lines) ==
  {i \in DOMAIN lines :
     /\ HasDataPrefix(lines, i)
     /\ \A j \in 1..i : ~IsSentinel(lines, j)
     /\ DecodesWithType(lines, i)}

\* The k-th of the lines that contribute an event.
EventLine(lines, k) ==
  CHOOSE i \in EventLines(lines) :
    Cardinality({j \in EventLines(lines) : j <= i}) = k

\* C27: the parser returns, in the order of the lines, one event for each
\* line that carries the data prefix, precedes the first sentinel line,
\* decodes as JSON and has a type; no other line contributes an event.
C27_OneEventPerDataLine ==
  \A n \in DOMAIN sseOuts :
    LET events == sseOuts[n].events IN
    /\ Len(events) = Cardinality(EventLines(fullBody))
    /\ \A k \in DOMAIN events :
         LET data == JsonValue[Trim(Tail(fullBody[EventLine(fullBody, k)]))[1]] IN
         events[k] = [type |-> data.type[1], data |-> data]

\* A body of two event lines of different types, the first one with white
\* space around its payload, has been parsed.
C27_Witness ==
  /\ Len(sseOuts) > 0
  /\ fullBody = << <<"data: ", " ", "{\"type\":\"delta\"}", "\r">>,
                   <<"data: ", "{\"type\":\"done\"}">> >>
  /\ Len(sseOuts[1].events) = 2
  /\ sseOuts[1].events[1].type = "delta"
  /\ sseOuts[1].events[2].type = "done"

\* An event line after a sentinel line has contributed no event.
C27_AfterSentinel ==
  /\ Len(sseOuts) > 0
  /\ fullBody = << <<"data: ", "[DONE]", "\r">>, <<"data: ", "{\"type\":\"done\"}">> >>
  /\ sseOuts[1].events = <<>>

\* The function_call events and the final-text records of the last response.
LastCalls == SelectSeq(call.lastEvents, IsFunctionCall)

LastTextDone == SelectSeq(call.lastEvents, IsTextDone)

\* The last response of the run carried tool invocations and a final text.
MixedResponse == LastCalls # <<>> /\ LastTextDone # <<>>

\* The items of invocation fc are at places i and i + 1 of the conversation.
ItemsOf(fc, i) ==
  /\ i + 1 <= Len(call.items)
  /\ call.items[i].type = "function_call"
  /\ call.items[i].id = fc.id
  /\ call.items[i].name = fc.name
  /\ call.items[i + 1].type = "function_call_output"
  /\ call.items[i + 1].id = fc.id

\* C28: a response with tool invocations and a final text does not end the
\* run: the run neither returns nor throws before a further request; when
\* that request is sent every invocation of the response has been executed
\* and its call and output items are the last items of the conversation;
\* and the text of the mixed response is never the result.
C28_MixedTurnContinues ==
  /\ (MixedResponse /\ call.agent) => call.pc \notin {"returned", "thrown"}
  /\ (MixedResponse /\ call.agent /\ call.pc = "request") =>
       \A n \in DOMAIN LastCalls :
         ItemsOf(LastCalls[n], Len(call.items) - 2 * (Len(LastCalls) - n) - 1)
  /\ (call.agent /\ call.pc = "returned") => call.text # <<"partial">>

\* The same for a run that has a tool executor and has not used up its
\* iterations.
C28_WithExecutorBelowCap ==
  /\ (MixedResponse /\ call.agent /\ call.runExecutor
        /\ call.requests < MaxAgentIterations) =>
       call.pc \in {"tool", "request"}
  /\ (MixedResponse /\ call.agent /\ call.pc = "request") =>
       \A n \in DOMAIN LastCalls :
         ItemsOf(LastCalls[n], Len(call.items) - 2 * (Len(LastCalls) - n) - 1)
  /\ (call.agent /\ call.pc = "returned") => call.text # <<"partial">>

\* After a mixed response the tool has run and the further request is sent.
C28_FurtherRequest ==
  /\ MixedResponse
  /\ call.pc = "request"
  /\ call.requests = 2

\* The mixed response was the 30th of the run: the placeholder is returned.
C28_MixedAtCap ==
  /\ MixedResponse
  /\ call.pc = "returned"
  /\ call.text = PlaceholderText
  /\ call.requests = MaxAgentIterations

\* The incremental-delta events of a response, and their texts joined in order.
Deltas(evs) == SelectSeq(evs, LAMBDA e : e.type = "response.output_text.delta")

RECURSIVE Joined(_)
Joined(es) == IF es = <<>> THEN <<>> ELSE Head(es).text \o Joined(Tail(es))

\* What a response without tool invocation is to yield: the text of its
\* final-text record, else its deltas joined, else the placeholder.
TextOf(evs) ==
  IF SelectSeq(evs, IsTextDone) # <<>> THEN Head(SelectSeq(evs, IsTextDone)).text
  ELSE IF Joined(Deltas(evs)) # <<>> THEN Joined(Deltas(evs))
  ELSE PlaceholderText

\* C29: when a request of the agent loop is answered (status 200) by a response
\* without tool invocation, the loop returns in that step: the result is the
\* text of the final-text record if there is one, else the deltas joined in
\* order if that is not empty, else the placeholder; no further request is
\* issued, in that step or after the return.
C29_NoToolResponseEnds ==
  [][/\ (/\ call.agent
         /\ call.pc = "request"
         /\ call'.lastStatus = 200
         /\ SelectSeq(call'.lastEvents, IsFunctionCall) = <<>>)
          => /\ call'.pc = "returned"
             /\ call'.text = TextOf(call'.lastEvents)
             /\ call'.requests = call.requests
     /\ call.pc = "returned" => call'.requests = call.requests]_vars

\* A response with a delta and a final-text record ended the loop with the
\* text of the record.
C29_Witness ==
  /\ call.agent
  /\ call.pc = "returned"
  /\ LastCalls = <<>>
  /\ LastTextDone # <<>>
  /\ Deltas(call.lastEvents) # <<>>
  /\ call.text = <<"hi">>

\* The deltas of a response without final-text record are the result.
C29_DeltasReturned ==
  /\ call.agent
  /\ call.pc = "returned"
  /\ call.lastStatus = 200
  /\ LastTextDone = <<>>
  /\ call.text = <<"h", "i">>

\* A response without any text ended the loop with the placeholder.
C29_PlaceholderReturned ==
  /\ call.agent
  /\ call.pc = "returned"
  /\ call.lastStatus = 200
  /\ call.lastEvents = <<>>
  /\ call.text = PlaceholderText
  /\ call.requests = 1

\* The two items that the loop appends for invocation fc are at places i and
\* i + 1 of the sequence items.
PairOf(fc, items, i) ==
  /\ i + 1 <= Len(items)
  /\ items[i].type = "function_call"
  /\ items[i].id = fc.id
  /\ items[i].name = fc.name
  /\ items[i + 1].type = "function_call_output"
  /\ items[i + 1].id = fc.id

\* Sequence s starts with sequence t.
StartsWith(s, t) == Len(t) <= Len(s) /\ SubSeq(s, 1, Len(t)) = t

\* The run is in its loop: a request or a tool is awaited.
InLoop(c) == c.agent /\ c.pc \in {"request", "tool"}

\* C30: within one run of the agent loop the conversation items only grow.
\* The first item is the user's message; across every step of the run the
\* items before the step are the first items after it; the input of a
\* request is the sequence of items at that time; and the input of a further
\* request is the input of the previous request followed by one function_call
\* item and one function_call_output item for every tool invocation of the
\* previous response, in the order of the invocations.
C30_ItemsOnlyGrow ==
  /\ [](InLoop(call) =>
          /\ call.items # <<>>
          /\ call.items[1].type = "message"
          /\ StartsWith(call.items, call.input)
          /\ call.pc = "request" => call.input = call.items)
  /\ [][(InLoop(call) /\ InLoop(call')) =>
          /\ StartsWith(call'.items, call.items)
          /\ call'.requests = call.requests + 1 =>
               LET fcs == SelectSeq(call'.lastEvents, IsFunctionCall) IN
               /\ StartsWith(call'.input, call.input)
               /\ Len(call'.input) = Len(call.input) + 2 * Len(fcs)
               /\ \A n \in DOMAIN fcs :
                    PairOf(fcs[n], call'.input, Len(call.input) + 2 * n - 1)]_vars

\* The second request of a run, after a response with two tool invocations:
\* its input is the message and the two pairs of items.
C30_Witness ==
  /\ InLoop(call)
  /\ call.pc = "request"
  /\ call.requests = 2
  /\ Len(LastCalls) = 2
  /\ Len(call.input) = 5

\* The queued functions of chat c that have started and not ended.
Executing(b, c) == {e \in b.execs : e.chat = c}

\* The message numbers of the tasks in a queue.
Waiting(b, c) == [i \in DOMAIN b.queues[c] |-> b.queues[c][i].n]

\* C31: ChatQueue runs the tasks of one chat one after the other and those
\* of different chats side by side.  In every state at most one task of a
\* chat is executing, the tasks of a chat that have started are the first of
\* those enqueued, in the order of enqueueing, and the rest wait in the
\* queue; a task waits only while another task of its chat is executing.
\* A task that is enqueued while no task of its chat is executing starts in
\* that step, whatever tasks of other chats are executing, and when a task
\* ends, by return or by exception, the next task of its chat starts in that
\* step.
C31_ChatQueueSequential ==
  /\ [](\A c \in ChatIds :
          /\ Cardinality(Executing(bot, c)) <= 1
          /\ bot.enqueued[c] = bot.started[c] \o Waiting(bot, c)
          /\ bot.queues[c] # <<>> => Executing(bot, c) # {}
          /\ c \in bot.running <=> Executing(bot, c) # {})
  /\ [][\A c \in ChatIds :
          /\ (Len(bot'.enqueued[c]) > Len(bot.enqueued[c]) /\ Executing(bot, c) = {})
               => bot'.started[c] = bot'.enqueued[c]
          /\ (/\ \E e \in Executing(bot, c) : \A f \in bot'.execs : f.n # e.n
              /\ bot.queues[c] # <<>>)
               => Len(bot'.started[c]) > Len(bot.started[c])]_vars

\* The first task of a chat threw, its second task is executing, and a task
\* of another chat is executing as well.
C31_Witness ==
  \E c \in ChatIds, d \in ChatIds :
    /\ c # d
    /\ Len(bot.started[c]) = 2
    /\ bot.started[c][1] \in bot.threw
    /\ \E e \in Executing(bot, c) : e.n = bot.started[c][2]
    /\ Executing(bot, d) # {}

\* No sendMessage call of the client is between its invocation and its end.
NoCallInFlight == \A k \in CallIds : calls[k].pc \in {"idle", "ok", "failed"}

\* C32: whenever no sendMessage call is in flight, the table of final texts
\* is empty.
C32_TableEmptyWhenIdle == NoCallInFlight => chatFinalTexts = EmptyMap

\* No call is in flight and the table holds the text of a final event of a
\* run that no call of this client started.
C32_EntryOfForeignRun ==
  /\ NoCallInFlight
  /\ \E r \in DOMAIN chatFinalTexts : \A k \in CallIds : calls[k].run # r

\* A call ended by the flush of a closed socket, and the entry of its run is
\* in the table.
C32_EntryLeftByDisconnect ==
  \E k \in CallIds :
    /\ calls[k].pc = "failed"
    /\ calls[k].err = "closed"
    /\ calls[k].run # 0
    /\ calls[k].run \in DOMAIN chatFinalTexts

\* The sockets the client created that are connecting or open.
LiveSockets == {s \in DOMAIN socks : socks[s].state \in {"connecting", "open"}}

\* An event of socket s is handled in this step: it opens, fails or closes,
\* delivers its challenge, or delivers the response to a request.
EventOf(s) ==
  \/ socks'[s].state # socks[s].state /\ socks'[s].state \in {"open", "closed"}
  \/ socks'[s].challenged # socks[s].challenged
  \/ \E id \in replied' \ replied : issued[id].sock = s

\* C33: at most one socket of the client is live at any time, and a step
\* that handles an event of a socket other than the current one leaves
\* connected, authenticated and the pending table as they are.
C33_OneLiveSocket ==
  /\ [](Cardinality(LiveSockets) <= 1)
  /\ [][\A s \in DOMAIN socks :
          (EventOf(s) /\ s # ws) =>
            /\ connected' = connected
            /\ authenticated' = authenticated
            /\ pending' = pending]_vars

\* Two sockets are live: the one a second connect() made and the one of the
\* connect() before it, which is still handshaking.
C33_TwoLive ==
  /\ Cardinality(LiveSockets) = 2
  /\ ws = 2
  /\ socks[1].state = "connecting"

\* The connect() of a reconnect has timed out, its socket is still
\* connecting, and the next reconnect has made another socket.
C33_ReconnectAfterTimeout ==
  \E s \in DOMAIN socks :
    /\ s # ws
    /\ s > 1
    /\ socks[s].state = "connecting"
    /\ socks[s].connP = "rejected"
    /\ ws \in LiveSockets
    /\ \A k \in CallIds : calls[k].pc \in {"ok", "failed"}

\* No start() called by a caller is in flight.
NoCallerStart(th) == th["start"].pc \in {"idle", "returned", "thrown"}

\* C34: after stop() has been called, and as long as no caller calls
\* start(), no Chrome process is launched and the service does not become
\* ready; a recovery that was sleeping when stop() was called launches none.
C34_StoppedStaysStopped ==
  [][(afterStop /\ afterStop' /\ NoCallerStart(threads) /\ NoCallerStart(threads'))
       => /\ Len(procs') = Len(procs)
          /\ (BsIsReady' => BsIsReady)]_vars

\* A recovery that slept through stop() has launched a Chrome process.
C34_RelaunchedAfterStop ==
  /\ afterStop
  /\ NoCallerStart(threads)
  /\ threads["stop"].pc = "idle"
  /\ threads["recover"].pc = "waitForCDP"
  /\ chromeProcess # 0
  /\ ~bsStopped

\* The service is ready after stop() and no caller has called start().
C34_ReadyAfterStop ==
  /\ afterStop
  /\ NoCallerStart(threads)
  /\ threads["stop"].pc = "idle"
  /\ threads["recover"].pc = "idle"
  /\ BsIsReady

\* The Chrome processes that were launched and have neither exited nor been
\* sent a kill signal.
RunningProcs == {p \in DOMAIN procs : procs[p] = "running"}

\* C35: the service owns at most one Chrome process: at most one process is
\* running, and a process that was launched is the one this.chromeProcess
\* refers to, or it has been killed or has exited.
C35_OneSubprocess ==
  /\ Cardinality(RunningProcs) <= 1
  /\ \A p \in RunningProcs : p = chromeProcess

\* A start() that follows a failed start() has launched a second process
\* while the first is running.
C35_TwoRunning ==
  /\ Cardinality(RunningProcs) = 2
  /\ chromeProcess = 2
  /\ threads["start"].pc = "waitForCDP"
  /\ threads["recover"].pc = "idle"

\* A recovery has replaced the first Chrome process and its session, and the
\* replacement is healthy: the second process runs and is the referenced
\* one, the service is ready on a live connection made after the first, no
\* recovery is in flight and the backoff is at its initial value, as a
\* recovery that succeeded leaves it.
Replaced ==
  /\ chromeProcess = 2
  /\ procs[2] = "running"
  /\ BsIsReady
  /\ conns[browser] = "connected"
  /\ threads["recover"].pc \in {"idle", "returned"}
  /\ ~reconnecting
  /\ bsBackoffMs = BsInitialBackoffMs

\* The exit event of process p, or the disconnected event of connection c,
\* is handled in this step.
ExitOf(p) == procs[p] # "exited" /\ procs'[p] = "exited"

DisconnectedOf(c) == conns[c] # "disconnected" /\ conns'[c] = "disconnected"

\* C36: once a recovery has replaced the subprocess and the session, the
\* exit event of the old process and the disconnected event of the old
\* session leave the references to the new browser and page as they are and
\* start no recovery, so that the new process is not killed.
C36_LateEventsSpareReplacement ==
  [][(/\ Replaced
      /\ \/ \E p \in DOMAIN procs : p # chromeProcess /\ ExitOf(p)
         \/ \E c \in DOMAIN conns : c # browser /\ DisconnectedOf(c))
       => /\ browser' = browser
          /\ page' = page
          /\ ~reconnecting'
          /\ threads'["recover"].pc = "idle"]_vars

\* The exit event of the process that the recovery killed has started a
\* second recovery, which has killed the replacement.
C36_ReplacementKilled ==
  /\ Len(procs) = 2
  /\ procs[1] = "exited"
  /\ procs[2] = "killed"
  /\ reconnecting
  /\ chromeProcess = 0

\* The retry of handleErrorAndRetry starts in this step.
RetryStarts == call.attempt = 1 /\ call'.attempt = 2

\* The tool invocations that have been executed in the run: each has left
\* a function_call_output item.
OutputsOf(items) == SelectSeq(items, LAMBDA it : it.type = "function_call_output")

\* C37: when a retryable status ends an agent-loop run in which tools have
\* already been executed, the retry goes on from the conversation items
\* accumulated so far: it is an agent-loop run whose items begin with the
\* items of the failed run, so that the model is not asked again for the
\* invocations that have run.
C37_RetryKeepsItems ==
  [][(RetryStarts /\ call.agent /\ OutputsOf(call.items) # <<>>)
       => /\ call'.agent
          /\ StartsWith(call'.items, call.items)]_vars

\* The retry of a run that had executed a tool has sent its first request,
\* with the user's message alone, got the invocation of the same tool
\* again, and is executing it.
C37_ToolRunsAgain ==
  /\ call.attempt = 2
  /\ call.agent
  /\ call.pc = "tool"
  /\ call.requests = 1
  /\ call.items = call.input
  /\ Len(call.input) = 1
  /\ Head(call.fcs).id = "call_1"
  /\ call.first.statusCode = 429

\* C38: the retry after a 401, 403 or 429 is the same logical call as the
\* first attempt: the same kind of request (agent loop or plain request),
\* the same tool executor, and the same first message, with the image when
\* the call has one.
C38_RetrySameCall ==
  [][RetryStarts
       => /\ call'.agent = call.agent
          /\ call'.runExecutor = call.runExecutor
          /\ Head(call'.items) = Head(call.items)]_vars

\* A call with an image and no tool executor is retried as a plain request
\* without the image.
C38_ImageDropped ==
  /\ call.attempt = 2
  /\ call.image
  /\ ~call.executor
  /\ ~call.agent
  /\ call.pc = "request"
  /\ Head(call.input).args = ""

\* A call with an image and a tool executor is retried in the agent loop,
\* without the image.
C38_ImageDroppedInLoop ==
  /\ call.attempt = 2
  /\ call.image
  /\ call.executor
  /\ call.agent
  /\ call.pc = "request"
  /\ Head(call.input).args = ""

\* The invocations of the last response whose items have been appended: all
\* of them once the next request is sent, those before the awaited one while
\* a tool runs.
Processed ==
  IF call.pc = "tool"
  THEN SubSeq(LastCalls, 1, Len(LastCalls) - Len(call.fcs))
  ELSE LastCalls

\* The place in the conversation before the items of the last response.
Base == IF call.pc = "tool" THEN Len(call.input)
        ELSE Len(call.items) - 2 * Len(LastCalls)

\* C39: in every state of an agent-loop run each function_call item of the
\* conversation is immediately followed by a function_call_output item with
\* the same call id, and every function_call_output item immediately follows
\* such an item; every invocation of the response being or last processed
\* whose tool has settled has exactly one such pair among the items appended
\* for that response, and these pairs stand in the order of the invocations.
C39_CallsPaired ==
  /\ \A i \in DOMAIN call.items :
       /\ call.items[i].type = "function_call"
            => /\ i + 1 <= Len(call.items)
               /\ call.items[i + 1].type = "function_call_output"
               /\ call.items[i + 1].id = call.items[i].id
       /\ call.items[i].type = "function_call_output"
            => /\ i > 1
               /\ call.items[i - 1].type = "function_call"
               /\ call.items[i - 1].id = call.items[i].id
  /\ InLoop(call) =>
       /\ Base >= 1
       /\ Len(call.items) = Base + 2 * Len(Processed)
       /\ \A n \in DOMAIN Processed :
            /\ PairOf(Processed[n], call.items, Base + 2 * n - 1)
            /\ Cardinality({i \in (Base + 1)..Len(call.items) :
                              /\ call.items[i].type = "function_call"
                              /\ call.items[i].id = Processed[n].id}) = 1

\* A response with two invocations, the first settled and its pair appended,
\* the second awaited.
C39_Witness ==
  /\ InLoop(call)
  /\ call.pc = "tool"
  /\ Len(LastCalls) = 2
  /\ Len(Processed) = 1
  /\ call.items[Len(call.items)].type = "function_call_output"
  /\ call.items[Len(call.items)].id = LastCalls[1].id

\* C40: from the /new command of a chat until a prompt of that chat received
\* after the command has completed, the session store holds no session for
\* the chat: a prompt that was executing when /new arrived does not store
\* its session id afterwards.
C40_ResetLasts ==
  \A c \in ChatIds : bot.reset[c] => bot.session[c] = 0

\* A prompt received before the /new of its chat has stored its session id
\* after the command, and no later prompt of the chat has been received.
C40_ResetUndone ==
  \E c \in ChatIds :
    /\ bot.reset[c]
    /\ bot.session[c] # 0
    /\ bot.session[c] < bot.newAt[c]
    /\ bot.nMsgs = bot.newAt[c]
    /\ \E e \in bot.execs : e.chat = c /\ e.pc = "reply" /\ e.n = bot.session[c]

====
